---- MODULE Spec2Model ----
(***************************************************************************)
(* A model of the whale analytics engine of the multi-chain blockchain     *)
(* scanner: WhaleDetector (core/whale_detector.py) on top of the explorer  *)
(* client BlockchainService (core/blockchain_service.py) and the           *)
(* known-entity tables (core/chains.py).                                   *)
(*                                                                         *)
(* Amounts (wei values, balances, thresholds) are integers counted in      *)
(* 1/Unit of a native token; Unit stands for the 10**18 wei of a token.    *)
(* A formatted balance is a multiple of BalanceStep, which stands for the  *)
(* sixth decimal that get_balance keeps. Timestamps are unix seconds.      *)
(* An address is a sequence of one-character strings, the hexadecimal      *)
(* digits after "0x"; known addresses are cut to their first four digits.  *)
(***************************************************************************)
EXTENDS Integers, Sequences, FiniteSets, TLC

VARIABLES
    chain,      \* WhaleDetector.chain: the chain the detector was built for
    op,         \* the routine of the detector that is (or was last) invoked
    args,       \* its arguments
    pc,         \* where the invocation stands
    loc,        \* its local variables
    result,     \* the value it returned
    raised,     \* the exception that left it, "none" if none did
    world,      \* how the explorer answers during this invocation
    calls,      \* the data-source calls the invocation has issued so far
    prev        \* the previous classify_whale call, for comparing two calls

vars == <<chain, op, args, pc, loc, result, raised, world, calls, prev>>

(***************************************************************************)
(* Bounds of the model.                                                    *)
(***************************************************************************)
Unit == 100
BalanceStep == 10
NowDay == 100
MaxTxs == 2

SecondsPerDay == 86400
Now == NowDay * SecondsPerDay

(***************************************************************************)
(* Generic helpers.                                                        *)
(***************************************************************************)
RECURSIVE SumSeq(_)
SumSeq(s) == IF s = <<>> THEN 0 ELSE Head(s) + SumSeq(Tail(s))

Min2(a, b) == IF a <= b THEN a ELSE b
Max2(a, b) == IF a >= b THEN a ELSE b

SeqsUpTo(S, n) == UNION {[1..k -> S] : k \in 0..n}

Ok(v) == [exc |-> "none", val |-> v]
Raise(e) == [exc |-> e, val |-> 0]

(***************************************************************************)
(* str.lower() and str.upper(), character by character.                    *)
(***************************************************************************)
Lowers == <<"a","b","c","d","e","f","g","h","i","j","k","l","m",
            "n","o","p","q","r","s","t","u","v","w","x","y","z">>
Uppers == <<"A","B","C","D","E","F","G","H","I","J","K","L","M",
            "N","O","P","Q","R","S","T","U","V","W","X","Y","Z">>

LowerChar(c) ==
    IF \E i \in 1..Len(Uppers) : Uppers[i] = c
    THEN Lowers[CHOOSE i \in 1..Len(Uppers) : Uppers[i] = c]
    ELSE c

Lower(s) == [i \in 1..Len(s) |-> LowerChar(s[i])]

UpperChar(c) ==
    IF \E i \in 1..Len(Lowers) : Lowers[i] = c
    THEN Uppers[CHOOSE i \in 1..Len(Lowers) : Lowers[i] = c]
    ELSE c

Upper(s) == [i \in 1..Len(s) |-> UpperChar(s[i])]

(***************************************************************************)
(* core/chains.py: the known-entity tables, in dictionary (insertion)      *)
(* order, each address cut to its first four hexadecimal digits.           *)
(***************************************************************************)
Entry(a, l) == [addr |-> a, label |-> l]

KNOWN_WHALES(c) ==
    CASE c = "ethereum" ->
           << Entry(<<"d","e","0","b">>, "Ethereum Foundation"),
              Entry(<<"c","0","2","a">>, "WETH Contract"),
              Entry(<<"b","e","0","e">>, "Binance 7"),
              Entry(<<"2","8","c","6">>, "Binance 14"),
              Entry(<<"d","f","d","5">>, "Binance 8"),
              Entry(<<"4","7","a","c">>, "Binance: Binance-Peg Tokens") >>
      [] c = "bsc" ->
           << Entry(<<"f","9","7","7">>, "Binance Hot Wallet 20"),
              Entry(<<"8","8","9","4">>, "Binance Hot Wallet 6"),
              Entry(<<"b","b","4","c">>, "WBNB Contract"),
              Entry(<<"0","0","0","0">>, "BSC Token Hub"),
              Entry(<<"1","0","e","d">>, "PancakeSwap Router v2"),
              Entry(<<"0","e","0","9">>, "CAKE Token"),
              Entry(<<"5","5","d","3">>, "Binance-Peg USDT") >>
      [] OTHER -> << >>

EXCHANGE_ADDRESSES(c) ==
    CASE c = "ethereum" ->
           << Entry(<<"2","8","c","6">>, "Binance"),
              Entry(<<"a","0","9","0">>, "Gemini"),
              Entry(<<"6","c","c","5">>, "OKEx"),
              Entry(<<"2","b","5","6">>, "KuCoin"),
              Entry(<<"7","1","6","6">>, "Coinbase"),
              Entry(<<"f","b","b","1">>, "Bittrex") >>
      [] c = "bsc" ->
           << Entry(<<"f","9","7","7">>, "Binance"),
              Entry(<<"8","8","9","4">>, "Binance 6"),
              Entry(<<"2","8","c","6">>, "Binance 14"),
              Entry(<<"7","c","0","6">>, "OKX"),
              Entry(<<"f","8","9","d">>, "Bybit"),
              Entry(<<"5","3","f","7">>, "KuCoin"),
              Entry(<<"0","d","0","7">>, "Gate.io"),
              Entry(<<"7","2","a","5">>, "Crypto.com"),
              Entry(<<"e","f","d","c">>, "Huobi") >>
      [] OTHER -> << >>

\* list(table.keys())
Keys(table) == [i \in 1..Len(table) |-> table[i].addr]

\* table.get(key): the label, or None
DictGet(table, key) ==
    IF \E i \in 1..Len(table) : table[i].addr = key
    THEN (CHOOSE e \in {table[i] : i \in 1..Len(table)} : e.addr = key).label
    ELSE "None"

known_whales == KNOWN_WHALES(chain)
exchange_addresses == EXCHANGE_ADDRESSES(chain)

\* the keys of the two tables, as the characters of the chain names
EthereumName == <<"e","t","h","e","r","e","u","m">>
BscName == <<"b","s","c">>

\* the key of the chain tables a (lowered) name is equal to, if any
ChainKey(key) ==
    IF key = EthereumName THEN "ethereum"
    ELSE IF key = BscName THEN "bsc"
    ELSE "none"

get_known_whales_exact(name) ==
    IF ChainKey(name) = "none" THEN <<>> ELSE KNOWN_WHALES(ChainKey(name))

\* KNOWN_WHALES.get(chain.lower(), {})
get_known_whales(name) ==
    IF ChainKey(Lower(name)) = "none" THEN <<>> ELSE KNOWN_WHALES(ChainKey(Lower(name)))

\* EXCHANGE_ADDRESSES.get(chain.lower(), {})
get_exchange_addresses(name) ==
    IF ChainKey(Lower(name)) = "none" THEN <<>> ELSE EXCHANGE_ADDRESSES(ChainKey(Lower(name)))

get_whale_label(address) == DictGet(known_whales, Lower(address))
is_exchange_address(address) == DictGet(exchange_addresses, Lower(address))

(***************************************************************************)
(* A field of an explorer record: an integer string, a string that is not  *)
(* an integer, or a key that is absent. int(rec[key]) on it.               *)
(***************************************************************************)
IntField(n) == <<"int", n>>
BadField == <<"bad", 0>>
MissingField == <<"missing", 0>>

GetInt(f) ==
    CASE f[1] = "missing" -> Raise("KeyError")
      [] f[1] = "bad" -> Raise("ValueError")
      [] OTHER -> Ok(f[2])

\* the first exception that evaluating xs (results, in order) runs into
RECURSIVE FirstExc(_)
FirstExc(xs) ==
    IF xs = <<>> THEN "none"
    ELSE IF Head(xs).exc # "none" THEN Head(xs).exc
    ELSE FirstExc(Tail(xs))

\* (datetime.now() - datetime.fromtimestamp(ts)).days
DaysSince(ts) == (Now - ts) \div SecondsPerDay

(***************************************************************************)
(* WhaleDetector: the pure functions.                                      *)
(***************************************************************************)
classify_whale_strict100(balance) ==
    IF balance >= 10000 * Unit THEN "mega_whale"
    ELSE IF balance >= 1000 * Unit THEN "large_whale"
    ELSE IF balance > 100 * Unit THEN "medium_whale"
    ELSE IF balance >= 10 * Unit THEN "small_whale"
    ELSE "shrimp"

classify_whale(balance) ==
    IF balance >= 10000 * Unit THEN "mega_whale"
    ELSE IF balance >= 1000 * Unit THEN "large_whale"
    ELSE IF balance >= 100 * Unit THEN "medium_whale"
    ELSE IF balance >= 10 * Unit THEN "small_whale"
    ELSE "shrimp"

get_movement_significance_strict(value) ==
    IF value > 10000 * Unit THEN "[!!!] MEGA MOVEMENT"
    ELSE IF value > 5000 * Unit THEN "[!!] CRITICAL"
    ELSE IF value > 1000 * Unit THEN "[!] MAJOR"
    ELSE IF value > 500 * Unit THEN "[*] SIGNIFICANT"
    ELSE "[-] NOTABLE"

get_movement_significance(value) ==
    IF value >= 10000 * Unit THEN "[!!!] MEGA MOVEMENT"
    ELSE IF value >= 5000 * Unit THEN "[!!] CRITICAL"
    ELSE IF value >= 1000 * Unit THEN "[!] MAJOR"
    ELSE IF value >= 500 * Unit THEN "[*] SIGNIFICANT"
    ELSE "[-] NOTABLE"

\* transactions[:20], then the count of those at most 30 days old
ActivityWindow(transactions) == SubSeq(transactions, 1, Min2(20, Len(transactions)))

_calculate_activity_score(transactions) ==
    IF transactions = <<>> THEN Ok(0)
    ELSE
      LET win == ActivityWindow(transactions)
          ts == [i \in 1..Len(win) |-> GetInt(win[i].timeStamp)]
          e == FirstExc(ts)
          recent_count == Cardinality({i \in 1..Len(win) : DaysSince(ts[i].val) <= 30})
      IN IF e # "none" THEN Raise(e)
         ELSE Ok(Min2(100, (recent_count * 100) \div 20))

RiskFactors_halfCounts(address, transactions, balance) ==
    LET n == Len(transactions)
        vals == [i \in 1..n |-> GetInt(transactions[i].value)]
        large == Cardinality({i \in 1..n : vals[i].val > 100 * Unit})
    IN (IF balance > 1000 * Unit THEN <<30>> ELSE <<>>)
       \o (IF Lower(address) \in {Lower(Keys(known_whales)[i]) : i \in 1..Len(known_whales)}
           THEN <<-20>> ELSE <<>>)
       \o (IF n > 0 /\ 2 * large >= n THEN <<25>> ELSE <<>>)
       \o (IF n > 0 /\ DaysSince(GetInt(transactions[n].timeStamp).val) < 30
           THEN <<40>> ELSE <<>>)

\* the risk factors, in the order the code appends them
RiskFactors(address, transactions, balance) ==
    LET n == Len(transactions)
        vals == [i \in 1..n |-> GetInt(transactions[i].value)]
        large == Cardinality({i \in 1..n : vals[i].val > 100 * Unit})
    IN (IF balance > 1000 * Unit THEN <<30>> ELSE <<>>)
       \o (IF Lower(address) \in {Lower(Keys(known_whales)[i]) : i \in 1..Len(known_whales)}
           THEN <<-20>> ELSE <<>>)
       \o (IF n > 0 /\ 2 * large > n THEN <<25>> ELSE <<>>)
       \o (IF n > 0 /\ DaysSince(GetInt(transactions[n].timeStamp).val) < 30
           THEN <<40>> ELSE <<>>)

\* the exception the evaluation runs into: the values first, then the last timestamp
RiskExc(transactions) ==
    LET n == Len(transactions)
        e1 == FirstExc([i \in 1..n |-> GetInt(transactions[i].value)])
    IN IF e1 # "none" THEN e1
       ELSE IF n > 0 THEN GetInt(transactions[n].timeStamp).exc
       ELSE "none"

_calculate_risk_score_unclamped(address, transactions, balance) ==
    IF RiskExc(transactions) # "none" THEN Raise(RiskExc(transactions))
    ELSE Ok(SumSeq(RiskFactors(address, transactions, balance)))

_calculate_risk_score(address, transactions, balance) ==
    IF RiskExc(transactions) # "none" THEN Raise(RiskExc(transactions))
    ELSE Ok(Max2(0, Min2(100, SumSeq(RiskFactors(address, transactions, balance)))))

(***************************************************************************)
(* Inputs of the direct calls.                                             *)
(***************************************************************************)
AmountMarks == {0, 10, 100, 500, 1000, 5000, 10000, 50000}
AmountInputs == {m * Unit + d : m \in AmountMarks, d \in {-1, 0, 1}} \cup {-5 * Unit}

ScoreChains == {"ethereum", "bsc"}
ScoreAddresses == {<<"d","e","0","b">>, <<"D","E","0","B">>, <<"f","9","7","7">>, <<"1","2","3","4">>}
ScoreBalances == {1000 * Unit, 1000 * Unit + BalanceStep}
ScoreValues == {IntField(100 * Unit), IntField(100 * Unit + 1), BadField}
ScoreTimes == {IntField(Now - 30 * SecondsPerDay + 1), IntField(Now - 30 * SecondsPerDay),
               IntField(Now - 30 * SecondsPerDay - SecondsPerDay \div 2),
               IntField(Now - 31 * SecondsPerDay)}
ScoreTxs == {[hash |-> 0, from |-> <<"d","e","0","b">>, to |-> <<"1","2","3","4">>,
              value |-> v, timeStamp |-> t] : v \in ScoreValues, t \in ScoreTimes}

\* short lists of every make, and uniform lists as long as the activity window and longer
ScoreLists ==
    SeqsUpTo(ScoreTxs, MaxTxs) \cup {[i \in 1..n |-> tx] : n \in 20..21, tx \in ScoreTxs}

NoWorld == [kind |-> "none", pageLen |-> 0, shape |-> "none",
            fault |-> [on |-> "none", kind |-> "none"]]
NoPrev == [set |-> FALSE, balance |-> 0, tier |-> "none"]

\* a direct call of a pure function: it runs to its end in one step
Finish(name, a, r) ==
    /\ pc = "idle"
    /\ op' = name
    /\ args' = a
    /\ pc' = "done"
    /\ result' = r.val
    /\ raised' = r.exc
    /\ UNCHANGED <<chain, loc, world, calls>>

CallClassify ==
    \E b \in AmountInputs :
        /\ Finish("classify_whale", [balance |-> b], Ok(classify_whale(b)))
        /\ UNCHANGED prev

\* a second call of classify_whale on the same detector
CallClassifyAgain ==
    \E b \in AmountInputs :
        /\ op = "classify_whale" /\ pc = "done" /\ ~prev.set
        /\ prev' = [set |-> TRUE, balance |-> args.balance, tier |-> result]
        /\ args' = [balance |-> b]
        /\ result' = classify_whale(b)
        /\ UNCHANGED <<chain, op, pc, loc, raised, world, calls>>

CallSignificance ==
    \E v \in AmountInputs :
        /\ Finish("get_movement_significance", [value |-> v], Ok(get_movement_significance(v)))
        /\ UNCHANGED prev

CallRisk ==
    \E a \in ScoreAddresses, b \in ScoreBalances, txs \in ScoreLists :
        /\ Finish("_calculate_risk_score", [address |-> a, transactions |-> txs, balance |-> b],
                  _calculate_risk_score(a, txs, b))
        /\ UNCHANGED prev

CallActivity ==
    \E txs \in ScoreLists :
        /\ Finish("_calculate_activity_score", [transactions |-> txs],
                  _calculate_activity_score(txs))
        /\ UNCHANGED prev

ChainNames ==
    { EthereumName, Upper(EthereumName), <<"E","t","h","e","r","e","u","m">>,
      <<"e","T","h","E","r","E","u","M">>, BscName, Upper(BscName), <<"B","s","c">>,
      <<"p","o","l","y","g","o","n">>, <<"e","t","h">>, EthereumName \o <<" ">>,
      <<"b","s","c","2">>, <<>> }

CallGetKnownWhales ==
    \E n \in ChainNames :
        /\ Finish("get_known_whales", [chain |-> n], Ok(get_known_whales(n)))
        /\ UNCHANGED prev

CallGetExchangeAddresses ==
    \E n \in ChainNames :
        /\ Finish("get_exchange_addresses", [chain |-> n], Ok(get_exchange_addresses(n)))
        /\ UNCHANGED prev

NextPure ==
    \/ CallClassify \/ CallClassifyAgain \/ CallSignificance \/ CallRisk \/ CallActivity
    \/ CallGetKnownWhales \/ CallGetExchangeAddresses



(***************************************************************************)
(* BlockchainService: what one explorer response makes of a request.       *)
(* A response is [kind, has, result]:                                      *)
(*   "transport"  the HTTP exchange fails (httpx.HTTPError, any subclass)  *)
(*   "bad_json"   the body is not JSON (response.json() raises ValueError)  *)
(*   "api_error"  status "0" with a message other than the no-results one  *)
(*   "no_tx"      status "0" with "No transactions found"                  *)
(*   "status0"    status "0" with the message given; "status0_bare": none  *)
(*   "ok"         any other body; has: whether it holds a "result" key     *)
(***************************************************************************)
\* a message is the sequence of its words
NoTransactionsFound == <<"No", "transactions", "found">>

Resp(k) ==
    [kind |-> k, has |-> FALSE, result |-> <<>>,
     message |-> CASE k = "no_tx" -> NoTransactionsFound
                   [] k = "api_error" -> <<"NOTOK">>
                   [] OTHER -> <<>>]
OkResp(r) == [kind |-> "ok", has |-> TRUE, result |-> r, message |-> <<"OK">>]
NoResultResp == [kind |-> "ok", has |-> FALSE, result |-> <<>>, message |-> <<"OK">>]
\* status "0" with the given message, and status "0" without a message key
StatusZero(msg) == [kind |-> "status0", has |-> FALSE, result |-> <<>>, message |-> msg]
StatusZeroBare == [kind |-> "status0_bare", has |-> FALSE, result |-> <<>>, message |-> <<>>]

ErrorStatus(resp) == resp.kind \in {"api_error", "no_tx", "status0", "status0_bare"}

\* data.get("message", "Unknown error")
MessageOf(resp) ==
    IF resp.kind = "status0_bare" THEN <<"Unknown", "error">> ELSE resp.message

\* pat in msg
Contains(msg, pat) ==
    \E i \in 0..(Len(msg) - Len(pat)) : SubSeq(msg, i + 1, i + Len(pat)) = pat

_make_request_exactMessage(resp) ==
    CASE resp.kind = "transport" -> Raise("Exception")
      [] resp.kind = "bad_json" -> Raise("ValueError")
      [] ErrorStatus(resp) ->
           IF MessageOf(resp) # NoTransactionsFound THEN Raise("Exception")
           ELSE Ok([has |-> TRUE, result |-> <<>>])
      [] OTHER -> Ok([has |-> resp.has, result |-> resp.result])

_make_request(resp) ==
    CASE resp.kind = "transport" -> Raise("Exception")
      [] resp.kind = "bad_json" -> Raise("ValueError")
      [] ErrorStatus(resp) ->
           IF ~Contains(MessageOf(resp), NoTransactionsFound) THEN Raise("Exception")
           ELSE Ok([has |-> TRUE, result |-> <<>>])
      [] OTHER -> Ok([has |-> resp.has, result |-> resp.result])

\* f"{balance:.6f}": the amount rounded to the last decimal kept, ties to even
FormatBalance(wei) ==
    LET q == wei \div BalanceStep
        r == wei % BalanceStep
    IN IF 2 * r < BalanceStep THEN q * BalanceStep
       ELSE IF 2 * r > BalanceStep THEN (q + 1) * BalanceStep
       ELSE IF q % 2 = 0 THEN q * BalanceStep
       ELSE (q + 1) * BalanceStep

get_balance(resp) ==
    LET data == _make_request(resp) IN
    IF data.exc # "none" THEN Raise(data.exc)
    ELSE IF ~data.val.has THEN Raise("KeyError")
    ELSE IF data.val.result = <<>> THEN Raise("TypeError")
    ELSE IF GetInt(data.val.result).exc # "none" THEN Raise(GetInt(data.val.result).exc)
    ELSE Ok(FormatBalance(GetInt(data.val.result).val))

get_transactions(resp) ==
    LET data == _make_request(resp) IN
    IF data.exc # "none" THEN Raise(data.exc)
    ELSE IF ~data.val.has THEN Raise("KeyError")
    ELSE Ok(data.val.result)

get_token_transfers(resp) ==
    LET data == _make_request(resp) IN
    IF data.exc # "none" THEN Raise(data.exc)
    ELSE IF ~data.val.has THEN Raise("KeyError")
    ELSE Ok(data.val.result)

\* an entry of the call log: the call, its address, how it ended, how much it gave;
\* the log holds the data-source calls, the pacing sleeps and the exits of analyze_whale
Call(f, a, out, n) == [fn |-> f, address |-> a, exc |-> out.exc, n |-> n]
Count(out) == IF out.exc = "none" THEN Len(out.val) ELSE 0
Sleep(t) == [fn |-> "sleep", address |-> <<>>, exc |-> "none", n |-> t]

(***************************************************************************)
(* WhaleDetector.analyze_whale                                              *)
(***************************************************************************)
NoneField == <<"none", 0>>

\* rec[key] for a key the code reads without converting it
GetRaw(f) == IF f[1] = "missing" THEN Raise("KeyError") ELSE Ok(f)

TransferContract_missingApart(t) == IF t.has THEN t.contractAddress ELSE "missing"

\* transfer.get("contractAddress", "")
TransferContract(t) == IF t.has THEN t.contractAddress ELSE ""

ZeroMetrics_scored(address, balance, whale_class) ==
    [address |-> address, eth_balance |-> balance, whale_class |-> whale_class,
     total_transactions |-> 0, large_transactions |-> 0,
     avg_transaction_value |-> 0, max_transaction_value |-> 0,
     first_seen |-> NoneField, last_activity |-> NoneField,
     activity_score |-> _calculate_activity_score(<<>>).val,
     risk_score |-> _calculate_risk_score(address, <<>>, balance).val,
     token_diversity |-> 0, chain |-> chain]

\* the record returned when the transaction list is empty
ZeroMetrics(address, balance, whale_class) ==
    [address |-> address, eth_balance |-> balance, whale_class |-> whale_class,
     total_transactions |-> 0, large_transactions |-> 0,
     avg_transaction_value |-> 0, max_transaction_value |-> 0,
     first_seen |-> NoneField, last_activity |-> NoneField,
     activity_score |-> 0, risk_score |-> 0,
     token_diversity |-> 0, chain |-> chain]

LastElement_first(l) == l[1]

\* transactions[-1]
LastElement(l) == l[Len(l)]

RECURSIVE MaxSeq(_)
MaxSeq(s) == IF Len(s) = 1 THEN s[1] ELSE Max2(Head(s), MaxSeq(Tail(s)))

\* the statistics of a non-empty transaction list, up to the token fetch;
\* the average is kept to the whole 1/Unit
TxMetrics(address, balance, whale_class, transactions) ==
    LET n == Len(transactions)
        vals == [i \in 1..n |-> GetInt(transactions[i].value)]
        first_seen == GetRaw(LastElement(transactions).timeStamp)
        last_activity == GetRaw(transactions[1].timeStamp)
        activity == _calculate_activity_score(transactions)
        risk == _calculate_risk_score(address, transactions, balance)
        e == FirstExc(vals \o <<first_seen, last_activity, activity, risk>>)
        values == [i \in 1..n |-> vals[i].val]
    IN IF e # "none" THEN Raise(e)
       ELSE Ok([address |-> address, eth_balance |-> balance, whale_class |-> whale_class,
                total_transactions |-> n,
                large_transactions |-> Cardinality({i \in 1..n : values[i] > 50 * Unit}),
                avg_transaction_value |-> SumSeq(values) \div n,
                max_transaction_value |-> MaxSeq(values),
                first_seen |-> first_seen.val, last_activity |-> last_activity.val,
                activity_score |-> activity.val, risk_score |-> risk.val,
                token_diversity |-> 0, chain |-> chain])

\* except Exception as e: raise Exception(...)
AnalyzeWrap(e) == "Exception"

TokenMetrics_swallow(m, transfers) ==
    IF transfers.exc # "none" THEN Ok(m)
    ELSE Ok([m EXCEPT !.token_diversity =
                Cardinality({TransferContract(transfers.val[i]) : i \in 1..Len(transfers.val)})])

\* the end of analyze_whale: the token transfers fetched, the record assembled
TokenMetrics(m, transfers) ==
    IF transfers.exc # "none" THEN Raise(AnalyzeWrap(transfers.exc))
    ELSE Ok([m EXCEPT !.token_diversity =
                Cardinality({TransferContract(transfers.val[i]) : i \in 1..Len(transfers.val)})])

(***************************************************************************)
(* list.sort(key=..., reverse=True): descending by the key, equal keys     *)
(* staying in the order they had.                                          *)
(***************************************************************************)
\* F applied to the value of v, with v evaluated once
Bind(v, F(_)) == CHOOSE r \in {F(x) : x \in {v}} : TRUE

Rank_tiesReversed(l, key, i) ==
    Cardinality({j \in 1..Len(l) :
                    \/ l[j][key] > l[i][key]
                    \/ l[j][key] = l[i][key] /\ j > i}) + 1

\* the place element i takes: after every element of a greater key, and after
\* the elements of the same key that come before it
Rank(l, key, i) ==
    Cardinality({j \in 1..Len(l) :
                    \/ l[j][key] > l[i][key]
                    \/ l[j][key] = l[i][key] /\ j < i}) + 1

SortDescBy(list, key) ==
    Bind(list, LAMBDA l :
        Bind({<<Rank(l, key, i), i>> : i \in 1..Len(l)}, LAMBDA R :
            [p \in 1..Len(l) |-> l[(CHOOSE t \in R : t[1] = p)[2]]]))

(***************************************************************************)
(* The state of an invocation, and the steps of analyze_whale and of       *)
(* compare_whales, which runs analyze_whale for each address in turn.      *)
(***************************************************************************)
Loc0 ==
    [i |-> 0, j |-> 0, acc |-> <<>>, address |-> <<>>, balance |-> 0,
     whale_class |-> "none", transactions |-> <<>>, m |-> <<>>, found |-> <<>>,
     token_transfers |-> <<>>]

St == [pc |-> pc, loc |-> loc, result |-> result, raised |-> raised, calls |-> calls]

Apply(s) ==
    /\ pc' = s.pc
    /\ loc' = s.loc
    /\ result' = s.result
    /\ raised' = s.raised
    /\ calls' = s.calls

\* entering analyze_whale(address)
EnterAnalyze(s, address) ==
    [s EXCEPT !.pc = "an_balance",
              !.loc = [@ EXCEPT !.address = address, !.balance = 0, !.whale_class = "none",
                                !.transactions = <<>>, !.m = <<>>,
                                !.token_transfers = <<>>]]

\* compare_whales at the head of its loop, about to take addresses[i]
CompareLoop(s, addresses, i) ==
    IF i > Len(addresses)
    THEN [s EXCEPT !.pc = "done", !.loc.i = i,
                   !.result = SortDescBy(s.loc.acc, "eth_balance")]
    ELSE EnterAnalyze([s EXCEPT !.loc.i = i], addresses[i])

\* except (httpx.HTTPError, ValueError, KeyError)
CaughtPerItem == {"HTTPError", "ValueError", "KeyError"}

\* compare_whales when the analyze_whale it awaits returns or raises
CompareResume(s, out) ==
    IF out.exc = "none"
    THEN CompareLoop([s EXCEPT !.loc.acc = Append(@, out.val),
                               !.calls = Append(@, Sleep(2))],
                     args.addresses, s.loc.i + 1)
    ELSE IF out.exc \in CaughtPerItem
    THEN CompareLoop(s, args.addresses, s.loc.i + 1)
    ELSE [s EXCEPT !.pc = "done", !.raised = out.exc]

\* analyze_whale returns or raises: to the host, or to compare_whales
AnalyzeExit(s, out) ==
    LET t == [s EXCEPT !.calls = Append(@, Call("analyze_whale", s.loc.address, out, 0))]
    IN IF op = "analyze_whale"
       THEN [t EXCEPT !.pc = "done", !.result = out.val, !.raised = out.exc]
       ELSE CompareResume(t, out)

(***************************************************************************)
(* What the explorer may answer to the calls of an analysis.               *)
(***************************************************************************)
HexDigits == <<"0","1","2","3","4","5","6","7","8","9","a","b","c","d","e","f">>

\* the k-th address of the model's address space
HexAddr(k) ==
    << HexDigits[((k \div 4096) % 16) + 1], HexDigits[((k \div 256) % 16) + 1],
       HexDigits[((k \div 16) % 16) + 1], HexDigits[(k % 16) + 1] >>

FailResps == {Resp("transport"), Resp("api_error"), Resp("bad_json"), NoResultResp}

Tx(h, f, t, v, ts) == [hash |-> h, from |-> f, to |-> t, value |-> v, timeStamp |-> ts]

Recent == IntField(Now - SecondsPerDay)
Old == IntField(Now - 400 * SecondsPerDay)

AnalyzeAddresses == {<<"D","E","0","B">>, <<"1","2","3","4">>}
AnalyzeTxs ==
    { Tx(1, HexAddr(1), HexAddr(2), IntField(50 * Unit + 1), Recent),
      Tx(2, HexAddr(2), HexAddr(1), IntField(101 * Unit), Old),
      Tx(3, HexAddr(1), HexAddr(2), BadField, Recent),
      Tx(4, HexAddr(1), HexAddr(2), MissingField, Recent),
      Tx(5, HexAddr(1), HexAddr(2), IntField(Unit), BadField) }

\* a page longer than the activity window with one timestamp, never read, malformed
LongPage ==
    [i \in 1..22 |-> IF i = 21 THEN Tx(5, HexAddr(1), HexAddr(2), IntField(Unit), BadField)
                     ELSE Tx(1, HexAddr(1), HexAddr(2), IntField(50 * Unit + 1), Recent)]

Transfers ==
    { [has |-> TRUE, contractAddress |-> "0xaa"], [has |-> TRUE, contractAddress |-> "0xAA"],
      [has |-> TRUE, contractAddress |-> ""], [has |-> FALSE, contractAddress |-> ""] }

AnalyzeBalanceResponses ==
    {OkResp(IntField(w)) : w \in {0, 1000 * Unit + BalanceStep, 10000 * Unit - 1}}
        \cup {OkResp(BadField), Resp("no_tx")} \cup FailResps
AnalyzeTxResponses ==
    {OkResp(l) : l \in SeqsUpTo(AnalyzeTxs, MaxTxs) \cup {LongPage}}
        \cup {Resp("no_tx")} \cup FailResps
AnalyzeTokenResponses ==
    {OkResp(l) : l \in SeqsUpTo(Transfers, MaxTxs)} \cup {Resp("no_tx")} \cup FailResps

MaxAddrs == 3
CompareAddresses == {HexAddr(k) : k \in 1..MaxAddrs}
CompareBalanceResponses ==
    {OkResp(IntField(w)) : w \in {5 * Unit, 20 * Unit}} \cup {Resp("transport"), Resp("bad_json")}
CompareTxResponses ==
    { Resp("no_tx"), NoResultResp,
      OkResp(<<Tx(1, HexAddr(1), HexAddr(2), IntField(50 * Unit + 1), Recent)>>),
      OkResp(<<Tx(3, HexAddr(1), HexAddr(2), BadField, Recent)>>) }
CompareTokenResponses == {OkResp(<<>>), Resp("api_error")}

BalanceResponses ==
    IF op = "compare_whales" THEN CompareBalanceResponses ELSE AnalyzeBalanceResponses
TxResponses ==
    IF op = "compare_whales" THEN CompareTxResponses ELSE AnalyzeTxResponses
TokenResponses ==
    IF op = "compare_whales" THEN CompareTokenResponses ELSE AnalyzeTokenResponses

\* the sequences over S of length lo..hi without a repeated element
DistinctSeqs(S, lo, hi) ==
    {q \in UNION {[1..k -> S] : k \in lo..hi} : \A i, j \in 1..Len(q) : i # j => q[i] # q[j]}

(***************************************************************************)
(* The steps.                                                              *)
(***************************************************************************)
InitIdle ==
    /\ chain \in ScoreChains
    /\ op = "idle"
    /\ args = <<>>
    /\ pc = "idle"
    /\ loc = Loc0
    /\ result = 0
    /\ raised = "none"
    /\ world = NoWorld
    /\ calls = <<>>
    /\ prev = NoPrev

\* the host calls analyze_whale(address)
CallAnalyze ==
    \E a \in AnalyzeAddresses :
        /\ pc = "idle"
        /\ op' = "analyze_whale"
        /\ args' = [address |-> a]
        /\ Apply(EnterAnalyze(St, a))
        /\ UNCHANGED <<chain, world, prev>>

\* the host calls compare_whales(addresses)
CallCompare ==
    \E l \in DistinctSeqs(CompareAddresses, 0, MaxAddrs) :
        /\ pc = "idle"
        /\ op' = "compare_whales"
        /\ args' = [addresses |-> l]
        /\ Apply(CompareLoop(St, l, 1))
        /\ UNCHANGED <<chain, world, prev>>

\* a log entry of a paged request
Paged(c, paging) ==
    [fn |-> c.fn, address |-> c.address, exc |-> c.exc, n |-> c.n,
     page |-> paging.page, offset |-> paging.offset]

AnalyzeTxPaging_default == [page |-> 1, offset |-> 10]

\* get_transactions(address, page=1, offset=100)
AnalyzeTxPaging == [page |-> 1, offset |-> 100]
\* get_token_transfers(address, page=1, offset=50)
AnalyzeTokenPaging == [page |-> 1, offset |-> 50]

\* analyze_whale: await get_balance, float(), classify_whale
AnalyzeBalance ==
    \E r \in BalanceResponses :
        /\ pc = "an_balance"
        /\ LET b == get_balance(r)
               s == [St EXCEPT !.calls = Append(@, Call("get_balance", loc.address, b, b.val))]
           IN Apply(IF b.exc # "none"
                    THEN AnalyzeExit(s, Raise(AnalyzeWrap(b.exc)))
                    ELSE [s EXCEPT !.pc = "an_txs", !.loc.balance = b.val,
                                   !.loc.whale_class = classify_whale(b.val)])
        /\ UNCHANGED <<chain, op, args, world, prev>>

\* analyze_whale: await get_transactions(page 1, 100), then everything up to
\* the next await: the empty-list return, or the statistics and the two scores
AnalyzeTransactions ==
    \E r \in TxResponses :
        /\ pc = "an_txs"
        /\ LET t == get_transactions(r)
               s == [St EXCEPT !.calls = Append(@, Paged(Call("get_transactions", loc.address,
                                                              t, Count(t)),
                                                         AnalyzeTxPaging)),
                               !.loc.transactions = IF t.exc = "none" THEN t.val ELSE <<>>]
               m == TxMetrics(loc.address, loc.balance, loc.whale_class, t.val)
           IN Apply(IF t.exc # "none" THEN AnalyzeExit(s, Raise(AnalyzeWrap(t.exc)))
                    ELSE IF t.val = <<>>
                    THEN AnalyzeExit(s, Ok(ZeroMetrics(loc.address, loc.balance, loc.whale_class)))
                    ELSE IF m.exc # "none" THEN AnalyzeExit(s, Raise(AnalyzeWrap(m.exc)))
                    ELSE [s EXCEPT !.pc = "an_tokens", !.loc.m = m.val])
        /\ UNCHANGED <<chain, op, args, world, prev>>

\* analyze_whale: await get_token_transfers(page 1, 50), the diversity, the return
AnalyzeTokens ==
    \E r \in TokenResponses :
        /\ pc = "an_tokens"
        /\ LET tt == get_token_transfers(r)
               s == [St EXCEPT !.calls = Append(@, Paged(Call("get_token_transfers",
                                                              loc.address, tt, Count(tt)),
                                                         AnalyzeTokenPaging)),
                               !.loc.token_transfers = IF tt.exc = "none" THEN tt.val ELSE <<>>]
           IN Apply(AnalyzeExit(s, TokenMetrics(loc.m, tt)))
        /\ UNCHANGED <<chain, op, args, world, prev>>

SpecPure == InitIdle /\ [][NextPure]_vars

NextAnalyze == CallAnalyze \/ AnalyzeBalance \/ AnalyzeTransactions \/ AnalyzeTokens

SpecAnalyze == InitIdle /\ [][NextAnalyze]_vars

NextCompare == CallCompare \/ AnalyzeBalance \/ AnalyzeTransactions \/ AnalyzeTokens

SpecCompare == InitIdle /\ [][NextCompare]_vars

(***************************************************************************)
(* The explorer during a discovery run. world = [pageLen, shape, fault]:   *)
(* every address has a page of pageLen transactions and a balance, both    *)
(* laid out by shape; fault names the one request that goes wrong, the     *)
(* transaction list of the second seed of the loop or the balance of       *)
(* FaultyAddr.  A page is a function of the address asked for.             *)
(***************************************************************************)
MaxPage == 9

HexVal(c) == (CHOOSE i \in 1..16 : HexDigits[i] = c) - 1
AddrNum(a) ==
    LET l == Lower(a)
    IN 4096 * HexVal(l[1]) + 256 * HexVal(l[2]) + 16 * HexVal(l[3]) + HexVal(l[4])

AllKnown == Keys(known_whales) \o Keys(exchange_addresses)

\* the number of a known address: its first place among the known addresses
SeedNo(a) == CHOOSE i \in 1..Len(AllKnown) :
                 /\ AllKnown[i] = Lower(a)
                 /\ \A j \in 1..(i - 1) : AllKnown[j] # Lower(a)

\* the other party of the k-th transaction of seed number n: two parties that
\* every seed deals with (in capitals for the even seeds), then parties of its own
Counterparty(n, k) ==
    IF k <= 2 THEN (IF n % 2 = 0 THEN Upper(HexAddr(9 + k)) ELSE HexAddr(9 + k))
    ELSE HexAddr(16 * n + k)

FaultyAddr == HexAddr(11)

PageValue(n, k) ==
    CASE world.shape = "asc" -> (47 + n + k) * Unit
      [] world.shape = "desc" -> (80 - n - k) * Unit
      [] world.shape = "flat" -> 50 * Unit
      [] OTHER -> (49 + ((n + k) % 3)) * Unit

\* in turn: received, sent, received at the address in capitals, sent to itself
PageTx(seed, k, bad) ==
    LET n == SeedNo(seed)
        c == Counterparty(n, k)
        v == IF bad THEN BadField ELSE IntField(PageValue(n, k))
    IN CASE k % 4 = 1 -> Tx(100 * n + k, c, seed, v, Recent)
         [] k % 4 = 2 -> Tx(100 * n + k, IF n % 2 = 1 THEN Upper(seed) ELSE seed, c, v, Recent)
         [] k % 4 = 3 -> Tx(100 * n + k, c, Upper(seed), v, Recent)
         [] OTHER -> Tx(100 * n + k, seed, seed, v, Recent)

FaultResp(kind) ==
    CASE kind = "no_result" -> NoResultResp
      [] kind = "bad_int" -> OkResp(BadField)
      [] OTHER -> Resp(kind)

\* the answer to the transaction-list request the loop makes at its i-th turn
PageAnswer(i, seed) ==
    IF world.fault.on = "txlist" /\ i = 2
    THEN IF world.fault.kind = "bad_value"
         THEN OkResp([k \in 1..world.pageLen |-> PageTx(seed, k, k = 2)])
         ELSE FaultResp(world.fault.kind)
    ELSE OkResp([k \in 1..world.pageLen |-> PageTx(seed, k, FALSE)])

BalanceWei(a) ==
    LET n == AddrNum(a) IN
    CASE world.shape = "asc" -> (n % 89) * 100 * Unit
      [] world.shape = "desc" -> (88 - (n % 89)) * 100 * Unit
      [] world.shape = "flat" -> 1000 * Unit
      [] OTHER -> ((n % 3) * 1000 + 1) * Unit - 4 * (n % 2)

BalanceAnswer(a) ==
    IF world.fault.on = "balance" /\ Lower(a) = FaultyAddr
    THEN FaultResp(world.fault.kind)
    ELSE OkResp(IntField(BalanceWei(a)))

NoFault == [on |-> "none", kind |-> "none"]
Faults ==
    {NoFault}
      \cup {[on |-> "txlist", kind |-> k] :
              k \in {"transport", "api_error", "bad_json", "no_result", "no_tx", "bad_value"}}
      \cup {[on |-> "balance", kind |-> k] :
              k \in {"transport", "api_error", "bad_json", "no_result", "bad_int"}}

Worlds ==
    [kind : {"explorer"}, pageLen : {1, MaxPage}, shape : {"asc", "desc", "flat", "zigzag"},
     fault : Faults]

MinInputs == {50 * Unit, 60 * Unit}
MinBalanceInputs == {1000 * Unit, 3000 * Unit}

(***************************************************************************)
(* WhaleDetector: the discovery routines.                                  *)
(***************************************************************************)
Take(l, n) == SubSeq(l, 1, Min2(n, Len(l)))

RankAndCut_unsorted(list, key, limit) == Take(list, limit)

\* list.sort(key=..., reverse=True); return list[:limit]
RankAndCut(list, key, limit) == Bind(SortDescBy(list, key), LAMBDA l : Take(l, limit))

\* _get_whale_class_cached, given how its get_balance call ended
WhaleClassOf(b) ==
    IF b.exc = "none" THEN Ok(classify_whale(b.val))
    ELSE IF b.exc \in {"HTTPError", "ValueError"} THEN Ok("None")
    ELSE Raise(b.exc)

\* whale_class.value if whale_class else "unknown"
ClassName(c) == IF c = "None" THEN "unknown" ELSE c

BalanceCall(a) ==
    LET b == get_balance(BalanceAnswer(a)) IN Call("get_balance", a, b, b.val)

Scan(acc, log, exc) == [acc |-> acc, log |-> log, exc |-> exc]

AtLeast_strict(value, threshold) == value > threshold

\* if value >= min_value: / if value >= min_amount:
AtLeast(value, threshold) == value >= threshold

LogOnce(log, c) ==
    IF \E i \in 1..Len(log) : log[i].fn = c.fn /\ log[i].address = c.address THEN log
    ELSE Append(log, c)

RECURSIVE ScanMovements_cached(_, _, _, _)
ScanMovements_cached(txs, k, acc, log) ==
    IF k > Len(txs) THEN Scan(acc, log, "none")
    ELSE
      LET tx == txs[k]
          value == GetInt(tx.value)
          from_class == WhaleClassOf(get_balance(BalanceAnswer(tx.from)))
          to_class == WhaleClassOf(get_balance(BalanceAnswer(tx.to)))
          log1 == LogOnce(log, BalanceCall(tx.from))
          log2 == LogOnce(log1, BalanceCall(tx.to))
          movement ==
              [hash |-> tx.hash, from_address |-> tx.from, to_address |-> tx.to,
               value_eth |-> value.val, timestamp |-> tx.timeStamp,
               from_whale_class |-> ClassName(from_class.val),
               to_whale_class |-> ClassName(to_class.val),
               from_label |-> get_whale_label(tx.from), to_label |-> get_whale_label(tx.to),
               from_exchange |-> is_exchange_address(tx.from),
               to_exchange |-> is_exchange_address(tx.to), chain |-> chain]
      IN IF value.exc # "none" THEN Scan(acc, log, value.exc)
         ELSE IF ~AtLeast(value.val, args.min_value)
         THEN ScanMovements_cached(txs, k + 1, acc, log)
         ELSE IF from_class.exc # "none" THEN Scan(acc, log1, from_class.exc)
         ELSE IF to_class.exc # "none" THEN Scan(acc, log2, to_class.exc)
         ELSE ScanMovements_cached(txs, k + 1, Append(acc, movement), log2)

\* discover_whale_movements: the loop over the transactions of one seed
RECURSIVE ScanMovements(_, _, _, _)
ScanMovements(txs, k, acc, log) ==
    IF k > Len(txs) THEN Scan(acc, log, "none")
    ELSE
      LET tx == txs[k]
          value == GetInt(tx.value)
          from_class == WhaleClassOf(get_balance(BalanceAnswer(tx.from)))
          to_class == WhaleClassOf(get_balance(BalanceAnswer(tx.to)))
          log1 == Append(log, BalanceCall(tx.from))
          log2 == Append(log1, BalanceCall(tx.to))
          movement ==
              [hash |-> tx.hash, from_address |-> tx.from, to_address |-> tx.to,
               value_eth |-> value.val, timestamp |-> tx.timeStamp,
               from_whale_class |-> ClassName(from_class.val),
               to_whale_class |-> ClassName(to_class.val),
               from_label |-> get_whale_label(tx.from), to_label |-> get_whale_label(tx.to),
               from_exchange |-> is_exchange_address(tx.from),
               to_exchange |-> is_exchange_address(tx.to), chain |-> chain]
      IN IF value.exc # "none" THEN Scan(acc, log, value.exc)
         ELSE IF ~AtLeast(value.val, args.min_value) THEN ScanMovements(txs, k + 1, acc, log)
         ELSE IF from_class.exc # "none" THEN Scan(acc, log1, from_class.exc)
         ELSE IF to_class.exc # "none" THEN Scan(acc, log2, to_class.exc)
         ELSE ScanMovements(txs, k + 1, Append(acc, movement), log2)

\* track_exchange_whales: which way a transaction of the exchange goes
ExchangeSide_bySender(tx, exchange_addr) ==
    IF Lower(tx.from) = Lower(exchange_addr)
    THEN [movement_type |-> "withdrawal", whale_address |-> tx.to]
    ELSE [movement_type |-> "deposit", whale_address |-> tx.from]

ExchangeSide(tx, exchange_addr) ==
    IF Lower(tx.to) = Lower(exchange_addr)
    THEN [movement_type |-> "deposit", whale_address |-> tx.from]
    ELSE [movement_type |-> "withdrawal", whale_address |-> tx.to]

\* track_exchange_whales: the loop over the transactions of one exchange
RECURSIVE ScanExchange(_, _, _, _, _)
ScanExchange(txs, k, acc, log, exchange_addr) ==
    IF k > Len(txs) THEN Scan(acc, log, "none")
    ELSE
      LET tx == txs[k]
          value == GetInt(tx.value)
          side == ExchangeSide(tx, exchange_addr)
          whale_class == WhaleClassOf(get_balance(BalanceAnswer(side.whale_address)))
          log1 == Append(log, BalanceCall(side.whale_address))
          movement ==
              [hash |-> tx.hash, exchange |-> DictGet(exchange_addresses, exchange_addr),
               exchange_address |-> exchange_addr, whale_address |-> side.whale_address,
               movement_type |-> side.movement_type, value_eth |-> value.val,
               whale_class |-> ClassName(whale_class.val),
               whale_label |-> get_whale_label(side.whale_address),
               timestamp |-> tx.timeStamp, chain |-> chain]
      IN IF value.exc # "none" THEN Scan(acc, log, value.exc)
         ELSE IF ~AtLeast(value.val, args.min_amount) THEN ScanExchange(txs, k + 1, acc, log, exchange_addr)
         ELSE IF whale_class.exc # "none" THEN Scan(acc, log1, whale_class.exc)
         ELSE ScanExchange(txs, k + 1, Append(acc, movement), log1, exchange_addr)

Discover_caseSensitive(found, addr) ==
    IF \E i \in 1..Len(found) : found[i].addr = addr THEN found
    ELSE Append(found, [key |-> Lower(addr), addr |-> addr])

\* discovered_whales[addr.lower()] = addr, unless the key is there already
Discover(found, addr) ==
    IF \E i \in 1..Len(found) : found[i].key = Lower(addr) THEN found
    ELSE Append(found, [key |-> Lower(addr), addr |-> addr])

\* discover_top_whales: the loop over the transactions of one seed
RECURSIVE ScanTop(_, _, _)
ScanTop(txs, k, found) ==
    IF k > Len(txs) THEN [found |-> found, exc |-> "none"]
    ELSE
      LET tx == txs[k]
          value == GetInt(tx.value)
      IN IF value.exc # "none" THEN [found |-> found, exc |-> value.exc]
         ELSE IF value.val >= 50 * Unit
         THEN ScanTop(txs, k + 1, Discover(Discover(found, tx.from), tx.to))
         ELSE ScanTop(txs, k + 1, found)

\* the seeds of the three routines
MonitorSeeds == Take(Keys(known_whales) \o Keys(exchange_addresses), 10)
TopSeeds_all == Keys(known_whales)
TopSeeds == Take(Keys(known_whales), 5)
ExchangeSeeds == Take(Keys(exchange_addresses), 5)

\* list(discovered_whales.values())[:30]
Candidates(found) == Take([i \in 1..Len(found) |-> found[i].addr], 30)

\* the head of each loop: the next turn, or the sort and the return
MovementsLoop(s, i) ==
    IF i > Len(MonitorSeeds)
    THEN [s EXCEPT !.pc = "done", !.loc.i = i,
                   !.result = RankAndCut(s.loc.acc, "value_eth", 50)]
    ELSE [s EXCEPT !.pc = "mv_seed", !.loc.i = i]

ExchangeLoop(s, i) ==
    IF i > Len(ExchangeSeeds)
    THEN [s EXCEPT !.pc = "done", !.loc.i = i,
                   !.result = RankAndCut(s.loc.acc, "value_eth", 30)]
    ELSE [s EXCEPT !.pc = "ex_seed", !.loc.i = i]

TopAddressLoop(s, j) ==
    IF j > Len(Candidates(s.loc.found))
    THEN [s EXCEPT !.pc = "done", !.loc.j = j,
                   !.result = RankAndCut(s.loc.acc, "eth_balance", 20)]
    ELSE [s EXCEPT !.pc = "top_addr", !.loc.j = j]

TopSeedLoop(s, i) ==
    IF i > Len(TopSeeds) THEN TopAddressLoop([s EXCEPT !.loc.i = i], 1)
    ELSE [s EXCEPT !.pc = "top_seed", !.loc.i = i]

\* an exception in the body of a loop: caught and the loop goes on, or it leaves
LoopExcept(s, exc, next) ==
    IF exc \in CaughtPerItem \cup {"none"} THEN next
    ELSE [s EXCEPT !.pc = "done", !.raised = exc]

InitDiscover ==
    /\ chain \in ScoreChains
    /\ op = "idle"
    /\ args = <<>>
    /\ pc = "idle"
    /\ loc = Loc0
    /\ result = 0
    /\ raised = "none"
    /\ world \in Worlds
    /\ calls = <<>>
    /\ prev = NoPrev

CallMovements ==
    \E v \in MinInputs :
        /\ pc = "idle"
        /\ op' = "discover_whale_movements"
        /\ args' = [min_value |-> v]
        /\ \E n \in {MovementsLoop(St, 1)} : Apply(n)
        /\ UNCHANGED <<chain, world, prev>>

CallExchange ==
    \E v \in MinInputs :
        /\ pc = "idle"
        /\ op' = "track_exchange_whales"
        /\ args' = [min_amount |-> v]
        /\ \E n \in {ExchangeLoop(St, 1)} : Apply(n)
        /\ UNCHANGED <<chain, world, prev>>

CallTop ==
    \E v \in MinBalanceInputs :
        /\ pc = "idle"
        /\ op' = "discover_top_whales"
        /\ args' = [min_balance |-> v]
        /\ \E n \in {TopSeedLoop(St, 1)} : Apply(n)
        /\ UNCHANGED <<chain, world, prev>>

\* the addresses of the balance lookups of a call log, in order
LookupsOf(log) ==
    LET l == SelectSeq(log, LAMBDA c : c.fn = "get_balance")
    IN [i \in 1..Len(l) |-> l[i].address]

\* the host calls discover_whale_movements again, on the same detector, once
\* the first invocation has returned
CallMovementsAgain ==
    \E v \in MinInputs :
        /\ pc = "done" /\ op = "discover_whale_movements" /\ raised = "none"
        /\ ~prev.set
        /\ prev' = [set |-> TRUE, min_value |-> args.min_value, first |-> LookupsOf(calls)]
        /\ args' = [min_value |-> v]
        /\ \E n \in {MovementsLoop([St EXCEPT !.loc = Loc0, !.result = 0, !.calls = <<>>], 1)} :
              Apply(n)
        /\ UNCHANGED <<chain, op, world>>

\* discover_whale_movements: one seed, from its transaction list to the pacing sleep
MovementsSeed ==
    /\ pc = "mv_seed"
    /\ \E t \in {get_transactions(PageAnswer(loc.i, MonitorSeeds[loc.i]))} :
       \E log1 \in {Append(calls, Call("get_transactions", MonitorSeeds[loc.i], t, Count(t)))} :
       \E r \in {IF t.exc # "none" THEN Scan(loc.acc, log1, t.exc)
                 ELSE ScanMovements(t.val, 1, loc.acc, log1)} :
       \E s \in {[St EXCEPT !.loc.acc = r.acc,
                            !.calls = IF r.exc = "none" THEN Append(r.log, Sleep(3)) ELSE r.log]} :
       \E n \in {LoopExcept(s, r.exc, MovementsLoop(s, loc.i + 1))} : Apply(n)
    /\ UNCHANGED <<chain, op, args, world, prev>>

\* track_exchange_whales: one exchange, from its transaction list to the pacing sleep
ExchangeSeed ==
    /\ pc = "ex_seed"
    /\ \E t \in {get_transactions(PageAnswer(loc.i, ExchangeSeeds[loc.i]))} :
       \E log1 \in {Append(calls, Call("get_transactions", ExchangeSeeds[loc.i], t, Count(t)))} :
       \E r \in {IF t.exc # "none" THEN Scan(loc.acc, log1, t.exc)
                 ELSE ScanExchange(t.val, 1, loc.acc, log1, ExchangeSeeds[loc.i])} :
       \E s \in {[St EXCEPT !.loc.acc = r.acc,
                            !.calls = IF r.exc = "none" THEN Append(r.log, Sleep(3)) ELSE r.log]} :
       \E n \in {LoopExcept(s, r.exc, ExchangeLoop(s, loc.i + 1))} : Apply(n)
    /\ UNCHANGED <<chain, op, args, world, prev>>

\* discover_top_whales, phase 1: one seed
TopSeed ==
    /\ pc = "top_seed"
    /\ \E t \in {get_transactions(PageAnswer(loc.i, TopSeeds[loc.i]))} :
       \E log1 \in {Append(calls, Call("get_transactions", TopSeeds[loc.i], t, Count(t)))} :
       \E r \in {IF t.exc # "none" THEN [found |-> loc.found, exc |-> t.exc]
                 ELSE ScanTop(t.val, 1, loc.found)} :
       \E s \in {[St EXCEPT !.loc.found = r.found,
                            !.calls = IF r.exc = "none" THEN Append(log1, Sleep(3)) ELSE log1]} :
       \E n \in {LoopExcept(s, r.exc, TopSeedLoop(s, loc.i + 1))} : Apply(n)
    /\ UNCHANGED <<chain, op, args, world, prev>>

\* discover_top_whales, phase 2: one discovered address
TopAddress ==
    /\ pc = "top_addr"
    /\ \E address \in {Candidates(loc.found)[loc.j]} :
       \E b \in {get_balance(BalanceAnswer(address))} :
       \E log1 \in {Append(calls, Call("get_balance", address, b, b.val))} :
       \E whale_info \in
             {[address |-> address, eth_balance |-> b.val,
               whale_class |-> classify_whale(b.val), label |-> get_whale_label(address),
               exchange |-> is_exchange_address(address),
               discovery_method |-> "transaction_analysis", chain |-> chain]} :
       \E s \in {[St EXCEPT !.loc.acc = IF b.exc = "none" /\ b.val >= args.min_balance
                                         THEN Append(@, whale_info) ELSE @,
                            !.calls = IF b.exc = "none" THEN Append(log1, Sleep(2)) ELSE log1]} :
       \E n \in {LoopExcept(s, b.exc, TopAddressLoop(s, loc.j + 1))} : Apply(n)
    /\ UNCHANGED <<chain, op, args, world, prev>>

NextDiscover ==
    \/ CallMovements \/ CallExchange \/ CallTop \/ CallMovementsAgain
    \/ MovementsSeed \/ ExchangeSeed \/ TopSeed \/ TopAddress

SpecDiscover == InitDiscover /\ [][NextDiscover]_vars

(***************************************************************************)
(* BlockchainService called on its own: one request, one response.         *)
(* world holds the response the explorer gave.                             *)
(***************************************************************************)
Messages ==
    { NoTransactionsFound,
      NoTransactionsFound \o <<"for", "this", "address">>,
      <<"Query:">> \o NoTransactionsFound,
      <<"No", "transactions">>,
      <<"found", "transactions", "No">>,
      <<"No", "records", "found">>,
      <<"Max", "rate", "limit", "reached">>,
      <<"NOTOK">>,
      <<>> }

FaultyResponses ==
    {StatusZero(m) : m \in Messages}
      \cup {StatusZeroBare, Resp("transport"), Resp("bad_json"), NoResultResp}

ListResponses ==
    FaultyResponses \cup {OkResp(txs) : txs \in SeqsUpTo(AnalyzeTxs, 1)}

AmountResponses ==
    FaultyResponses \cup {OkResp(IntField(1000 * Unit + 4)), OkResp(BadField)}

Answered(resp) == [kind |-> "answer", response |-> resp]

\* a direct call of a service method: the request, the response, the outcome
Serve(name, a, resp, out) ==
    /\ pc = "idle"
    /\ op' = name
    /\ args' = [address |-> a]
    /\ world' = Answered(resp)
    /\ pc' = "done"
    /\ result' = out.val
    /\ raised' = out.exc
    /\ UNCHANGED <<chain, loc, calls, prev>>

CallGetBalance ==
    \E a \in AnalyzeAddresses, resp \in AmountResponses :
        Serve("get_balance", a, resp, get_balance(resp))

CallGetTransactions ==
    \E a \in AnalyzeAddresses, resp \in ListResponses :
        Serve("get_transactions", a, resp, get_transactions(resp))

CallGetTokenTransfers ==
    \E a \in AnalyzeAddresses, resp \in ListResponses :
        Serve("get_token_transfers", a, resp, get_token_transfers(resp))

NextService == CallGetBalance \/ CallGetTransactions \/ CallGetTokenTransfers

SpecService == InitIdle /\ [][NextService]_vars

(***************************************************************************)
(* BlockchainService._make_request under concurrent tool invocations.      *)
(* The invocations are tasks of one event loop sharing the service of a    *)
(* chain: a task runs without interruption from one await to the next.     *)
(* Time is counted in tenths of a second; loc holds each task's position   *)
(* and the service's _last_request_time, world the clock and the set of    *)
(* tasks whose request is sent and not yet answered.                       *)
(***************************************************************************)
MaxClock == 6
MaxSends == 2
Tasks == {1, 2}

\* min_interval = 1.0 / self.rate_limit, with the default rate limit of 5
MinInterval == 2

TaskIdle == [pc |-> "idle", wake |-> 0, sent |-> 0]

InitConcurrent ==
    /\ chain \in ScoreChains
    /\ op = "_make_request"
    /\ args = <<>>
    /\ pc = "tasks"
    /\ loc = [task |-> [t \in Tasks |-> TaskIdle], _last_request_time |-> 0]
    /\ result = 0
    /\ raised = "none"
    /\ world = [kind |-> "clock", now |-> MinInterval, inflight |-> {}]
    /\ calls = <<>>
    /\ prev = NoPrev

\* self._client.get(...): the request leaves and the task awaits the response
Send(t) ==
    /\ loc' = [loc EXCEPT !.task[t].pc = "awaiting", !.task[t].sent = @ + 1]
    /\ world' = [world EXCEPT !.inflight = @ \cup {t}]

\* a task enters _make_request: it sleeps when the last request is too recent,
\* else it sends at once
RequestEnter(t) ==
    /\ pc = "tasks"
    /\ loc.task[t].pc \in {"idle", "returned"}
    /\ loc.task[t].sent < MaxSends
    /\ LET time_since_last == world.now - loc._last_request_time
       IN IF time_since_last < MinInterval
          THEN /\ loc' = [loc EXCEPT !.task[t].pc = "sleeping",
                                     !.task[t].wake = world.now + (MinInterval - time_since_last)]
               /\ UNCHANGED world
          ELSE Send(t)
    /\ UNCHANGED <<chain, op, args, pc, result, raised, calls, prev>>

\* asyncio.sleep(...) is over: the task sends
RequestWake(t) ==
    /\ pc = "tasks"
    /\ loc.task[t].pc = "sleeping"
    /\ world.now >= loc.task[t].wake
    /\ Send(t)
    /\ UNCHANGED <<chain, op, args, pc, result, raised, calls, prev>>

\* the response arrives: _last_request_time is set unless the exchange failed
RequestAnswered(t) ==
    /\ pc = "tasks"
    /\ loc.task[t].pc = "awaiting"
    /\ \E ok \in BOOLEAN :
          loc' = [loc EXCEPT !.task[t].pc = "returned",
                             !._last_request_time = IF ok THEN world.now ELSE @]
    /\ world' = [world EXCEPT !.inflight = @ \ {t}]
    /\ UNCHANGED <<chain, op, args, pc, result, raised, calls, prev>>

Tick ==
    /\ pc = "tasks"
    /\ world.now < MaxClock
    /\ world' = [world EXCEPT !.now = @ + 1]
    /\ UNCHANGED <<chain, op, args, pc, loc, result, raised, calls, prev>>

NextConcurrent ==
    \/ \E t \in Tasks : RequestEnter(t)
    \/ \E t \in Tasks : RequestWake(t)
    \/ \E t \in Tasks : RequestAnswered(t)
    \/ Tick

SpecConcurrent == InitConcurrent /\ [][NextConcurrent]_vars

(***************************************************************************)
(* core/validators.py.  An argument is [type, chars]: a str with its       *)
(* characters, or a value of another type.  HexLen stands for the 40       *)
(* hexadecimal digits of an address.                                       *)
(***************************************************************************)
HexLen == 4

Str(s) == [type |-> "str", chars |-> s]
NotStr(t) == [type |-> t, chars |-> <<>>]

IsHex(c) ==
    c \in {"0","1","2","3","4","5","6","7","8","9",
           "a","b","c","d","e","f","A","B","C","D","E","F"}

\* re.match(r"^0x[a-fA-F0-9]{40}$", s): "$" matches at the end of the string
\* and also just before a newline that ends the string
ReMatch(s) ==
    /\ Len(s) >= 2 + HexLen
    /\ s[1] = "0" /\ s[2] = "x"
    /\ \A i \in 3..(2 + HexLen) : IsHex(s[i])
    /\ \/ Len(s) = 2 + HexLen
       \/ Len(s) = 3 + HexLen /\ s[3 + HexLen] = "\n"

validate_address_upper(address) ==
    IF address.type # "str" THEN Raise("ValueError")
    ELSE IF ~ReMatch(address.chars) THEN Raise("ValueError")
    ELSE Ok(Str(Upper(address.chars)))

validate_address(address) ==
    IF address.type # "str" THEN Raise("ValueError")
    ELSE IF ~ReMatch(address.chars) THEN Raise("ValueError")
    ELSE Ok(Str(Lower(address.chars)))

validate_positive(value) ==
    IF value <= 0 THEN Raise("ValueError") ELSE Ok(value)

Prefixes == {<<"0","x">>, <<"0","X">>, <<"x">>, <<>>, <<" ","0","x">>}
BodyChars == {"a", "F", "9", "g"}
Bodies ==
    [1..HexLen -> BodyChars]
      \cup {[i \in 1..n |-> "a"] : n \in {0, HexLen - 1, HexLen + 1}}
Suffixes == {<<>>, <<"\n">>, <<" ">>, <<"\n","\n">>, <<"a","\n">>}

AddressInputs ==
    {Str(p \o b \o x) : p \in Prefixes, b \in Bodies, x \in Suffixes}
      \cup {NotStr("NoneType"), NotStr("int")}

CallValidateAddress ==
    \E x \in AddressInputs :
        /\ Finish("validate_address", [address |-> x], validate_address(x))
        /\ UNCHANGED prev

\* validate_address applied to what validate_address returned
CallValidateAddressAgain ==
    /\ op = "validate_address" /\ pc = "done" /\ raised = "none"
    /\ \E out \in {validate_address(result)} :
          /\ result' = out.val
          /\ raised' = out.exc
    /\ pc' = "done2"
    /\ prev' = [set |-> TRUE, first |-> result]
    /\ UNCHANGED <<chain, op, args, loc, world, calls>>

CallValidatePositive ==
    \E v \in {-1, 0, 1} \cup MinInputs :
        /\ Finish("validate_positive", [value |-> v], validate_positive(v))
        /\ UNCHANGED prev

NextValidate == CallValidateAddress \/ CallValidateAddressAgain \/ CallValidatePositive

SpecValidate == InitIdle /\ [][NextValidate]_vars

(***************************************************************************)
(* core/server.py: the tools.  A tool invocation validates its arguments,  *)
(* gets the service of its chain, runs a service method or a routine of    *)
(* the detector, and returns a text.  args holds the tool's name and       *)
(* arguments as the host gave them, and the arguments passed to the core;  *)
(* addresses are passed to the core without their "0x".  world.api_key     *)
(* tells whether the environment holds the API key.                        *)
(***************************************************************************)
ServerWorlds ==
    [kind : {"explorer"}, pageLen : {1}, shape : {"asc"},
     fault : {NoFault, [on |-> "txlist", kind |-> "transport"],
              [on |-> "txlist", kind |-> "bad_json"]},
     api_key : BOOLEAN]

InitServer ==
    /\ chain \in ScoreChains
    /\ op = "idle"
    /\ args = <<>>
    /\ pc = "idle"
    /\ loc = Loc0
    /\ result = 0
    /\ raised = "none"
    /\ world \in ServerWorlds
    /\ calls = <<>>
    /\ prev = NoPrev

\* what the host may pass as chain: the detector's chain in either case, or
\* a chain that is not in the registry
ToolChains ==
    LET name == IF chain = "ethereum" THEN EthereumName ELSE BscName
    IN {name, Upper(name), <<"p","o","l","y","g","o","n">>}

Padding == [i \in 1..(HexLen - 4) |-> "0"]
ToolAddress(body) == <<"0","x">> \o body \o Padding

ToolAddresses ==
    { ToolAddress(<<"D","E","0","b">>), ToolAddress(<<"1","2","3","4">>),
      ToolAddress(<<"1","2","3","4">>) \o <<"\n">>,
      <<"0","x","1","2","3">>, <<"1","2","3","4">> \o Padding,
      ToolAddress(<<"g","2","3","4">>), <<>> }

Strip0x(s) == SubSeq(s, 3, Len(s))

IsSpace(c) == c \in {" ", "\n", "\t"}

\* str.strip()
Strip(s) ==
    LET kept == {i \in 1..Len(s) : ~IsSpace(s[i])}
    IN IF kept = {} THEN <<>>
       ELSE SubSeq(s, CHOOSE i \in kept : \A j \in kept : i <= j,
                      CHOOSE i \in kept : \A j \in kept : i >= j)

\* [addr.strip() for addr in addresses.split(",") if addr.strip()], on the
\* pieces between the commas
ParseAddresses(pieces) ==
    SelectSeq([i \in 1..Len(pieces) |-> Strip(pieces[i])], LAMBDA a : a # <<>>)

\* _get_service(chain): the exception it raises, if any
ServiceInit(name) ==
    IF Lower(name) \notin {EthereumName, BscName} THEN "ValueError"
    ELSE IF ~world.api_key THEN "ValueError"
    ELSE "none"

\* the text a tool returns: an error message (for the exception exc, if one
\* was caught) or a report
Text(error, exc) == [kind |-> "text", error |-> error, exc |-> exc]

ReturnOutcome_escapes(s, exc) ==
    [s EXCEPT !.pc = "returned", !.result = Text(FALSE, "none"), !.raised = exc]

ReturnText(s, text) == [s EXCEPT !.pc = "returned", !.result = text, !.raised = "none"]

\* try: ... return report / except Exception as e: return f"Error ...: {e}"
ReturnOutcome(s, exc) == ReturnText(s, Text(exc # "none", exc))

\* the first exception of a sequence of steps
FirstOf(excs) ==
    IF \A i \in 1..Len(excs) : excs[i] = "none" THEN "none"
    ELSE excs[CHOOSE i \in 1..Len(excs) :
                 excs[i] # "none" /\ \A j \in 1..(i - 1) : excs[j] = "none"]

\* a tool that validates an address and awaits one service method
AddressTool(name, x, n, pre, fn, out, fmt) ==
    /\ pc = "idle"
    /\ op' = name
    /\ args' = [tool |-> name, input |-> x, chain |-> n]
    /\ \E s \in {IF pre # "none" THEN St
                 ELSE [St EXCEPT !.calls = Append(@, Call(fn, Strip0x(Lower(x)), out, 0))]} :
          Apply(ReturnOutcome(s, FirstOf(<<pre, out.exc, fmt>>)))
    /\ UNCHANGED <<chain, world, prev>>

\* the text of the first five records: int(tx['value']) and the keys read
FormatRecords(out) ==
    IF out.exc # "none" THEN "none"
    ELSE FirstExc([i \in 1..Min2(5, Len(out.val)) |-> GetInt(out.val[i].value)])

ToolCheckBalance ==
    \E x \in ToolAddresses, n \in ToolChains, r \in AmountResponses :
        AddressTool("check_balance", x, n,
                    FirstOf(<<validate_address(Str(x)).exc, ServiceInit(n)>>),
                    "get_balance", get_balance(r), "none")

ToolDetectWhaleClass ==
    \E x \in ToolAddresses, n \in ToolChains, r \in AmountResponses :
        AddressTool("detect_whale_class", x, n,
                    FirstOf(<<validate_address(Str(x)).exc, ServiceInit(n)>>),
                    "get_balance", get_balance(r), "none")

ToolGetTransactions ==
    \E x \in ToolAddresses, n \in ToolChains, r \in ListResponses :
        AddressTool("get_transactions", x, n,
                    FirstOf(<<validate_address(Str(x)).exc, ServiceInit(n)>>),
                    "get_transactions", get_transactions(r),
                    FormatRecords(get_transactions(r)))

ToolGetTokenTransfers ==
    \E x \in ToolAddresses, n \in ToolChains, r \in ListResponses :
        AddressTool("get_token_transfers", x, n,
                    FirstOf(<<validate_address(Str(x)).exc, ServiceInit(n)>>),
                    "get_token_transfers", get_token_transfers(r),
                    FormatRecords(get_token_transfers(r)))

\* BlockchainService.get_contract_abi: data["result"]
get_contract_abi(resp) ==
    LET data == _make_request(resp) IN
    IF data.exc # "none" THEN Raise(data.exc)
    ELSE IF ~data.val.has THEN Raise("KeyError")
    ELSE Ok(data.val.result)

\* BlockchainService.get_gas_prices: the three prices of data["result"]
get_gas_prices(resp) ==
    LET data == _make_request(resp) IN
    IF data.exc # "none" THEN Raise(data.exc)
    ELSE IF ~data.val.has THEN Raise("KeyError")
    ELSE IF data.val.result = <<>> THEN Raise("TypeError")
    ELSE IF ~data.val.result.prices THEN Raise("KeyError")
    ELSE Ok(data.val.result)

AbiResponses == FaultyResponses \cup {OkResp(<<"abi">>)}
GasResponses == FaultyResponses \cup {OkResp([prices |-> TRUE]), OkResp([prices |-> FALSE])}

ToolGetContractAbi ==
    \E x \in ToolAddresses, n \in ToolChains, r \in AbiResponses :
        AddressTool("get_contract_abi", x, n,
                    FirstOf(<<validate_address(Str(x)).exc, ServiceInit(n)>>),
                    "get_contract_abi", get_contract_abi(r), "none")

ToolGetGasPrices ==
    \E n \in ToolChains, r \in GasResponses :
        /\ pc = "idle"
        /\ op' = "get_gas_prices"
        /\ args' = [tool |-> "get_gas_prices", input |-> <<>>, chain |-> n]
        /\ \E out \in {get_gas_prices(r)} :
           \E s \in {IF ServiceInit(n) # "none" THEN St
                     ELSE [St EXCEPT !.calls = Append(@, Call("get_gas_prices", <<>>, out, 0))]} :
              Apply(ReturnOutcome(s, FirstOf(<<ServiceInit(n), out.exc>>)))
        /\ UNCHANGED <<chain, world, prev>>

\* the tool analyze_whale, up to its await of the detector
ToolAnalyzeWhale ==
    \E x \in ToolAddresses, n \in ToolChains :
        /\ pc = "idle"
        /\ op' = "analyze_whale"
        /\ \E pre \in {FirstOf(<<validate_address(Str(x)).exc, ServiceInit(n)>>)} :
              /\ args' = [tool |-> "analyze_whale", input |-> x, chain |-> n,
                          address |-> IF pre = "none" THEN Strip0x(Lower(x)) ELSE <<>>]
              /\ Apply(IF pre # "none" THEN ReturnOutcome(St, pre)
                       ELSE EnterAnalyze(St, Strip0x(Lower(x))))
        /\ UNCHANGED <<chain, world, prev>>

\* the comma-separated lists the host may pass, as their pieces
ComparePieces ==
    LET a1 == ToolAddress(HexAddr(1))
        a2 == ToolAddress(HexAddr(2))
        a3 == ToolAddress(<<"0","0","0","C">>)
    IN { <<a1, a2>>, <<a2, a3, a1>>, <<<<" ">> \o a1 \o <<"\n">>, a2>>, <<a1, <<>>, a2, <<" ">>>>,
         <<a1>>, <<a1, <<>>>>, <<>>, [i \in 1..11 |-> a1],
         <<a1, <<"0","x","1","2","3">>>>, <<ToolAddress(<<"g","2","3","4">>), a2>> }

\* the tool compare_whales, up to its await of the detector
ToolCompareWhales ==
    \E pieces \in ComparePieces, n \in ToolChains :
        /\ pc = "idle"
        /\ op' = "compare_whales"
        /\ \E addr_list \in {ParseAddresses(pieces)} :
           \E bad \in {FirstOf([i \in 1..Len(addr_list) |->
                                   validate_address(Str(addr_list[i])).exc])} :
           \E enters \in {ServiceInit(n) = "none" /\ Len(addr_list) <= 10
                            /\ Len(addr_list) >= 2 /\ bad = "none"} :
              /\ args' = [tool |-> "compare_whales", input |-> pieces, chain |-> n,
                          addresses |-> IF enters
                                        THEN [i \in 1..Len(addr_list) |->
                                                 Strip0x(Lower(addr_list[i]))]
                                        ELSE <<>>]
              /\ Apply(IF ServiceInit(n) # "none" THEN ReturnOutcome(St, ServiceInit(n))
                       ELSE IF Len(addr_list) > 10 THEN ReturnText(St, Text(TRUE, "none"))
                       ELSE IF Len(addr_list) < 2 THEN ReturnText(St, Text(TRUE, "none"))
                       ELSE IF bad # "none" THEN ReturnOutcome(St, bad)
                       ELSE CompareLoop(St, [i \in 1..Len(addr_list) |->
                                                Strip0x(Lower(addr_list[i]))], 1))
        /\ UNCHANGED <<chain, world, prev>>

ToolAmounts == {-1 * Unit, 0, 50 * Unit}

\* a discovery tool, up to its await of the detector
DiscoveryTool(name, v, n, a, entered) ==
    /\ pc = "idle"
    /\ op' = name
    /\ args' = a
    /\ \E pre \in {FirstOf(<<validate_positive(v).exc, ServiceInit(n)>>)} :
          Apply(IF pre # "none" THEN ReturnOutcome(St, pre) ELSE entered)
    /\ UNCHANGED <<chain, world, prev>>

ToolDiscoverWhaleMovements ==
    \E v \in ToolAmounts, n \in ToolChains :
        DiscoveryTool("discover_whale_movements", v, n,
                      [tool |-> "discover_whale_movements", input |-> v, chain |-> n,
                       min_value |-> v],
                      MovementsLoop(St, 1))

ToolDiscoverTopWhales ==
    \E v \in ToolAmounts, n \in ToolChains :
        DiscoveryTool("discover_top_whales", v, n,
                      [tool |-> "discover_top_whales", input |-> v, chain |-> n,
                       min_balance |-> v],
                      TopSeedLoop(St, 1))

ToolTrackExchangeWhales ==
    \E v \in ToolAmounts, n \in ToolChains :
        DiscoveryTool("track_exchange_whales", v, n,
                      [tool |-> "track_exchange_whales", input |-> v, chain |-> n,
                       min_amount |-> v],
                      ExchangeLoop(St, 1))

\* the detector's routine has returned or raised: the report, or the error text
ToolReturn ==
    /\ pc = "done"
    /\ Apply(IF raised # "none" THEN ReturnOutcome(St, raised)
             ELSE IF op = "compare_whales" /\ result = <<>>
             THEN ReturnText(St, Text(TRUE, "none"))
             ELSE ReturnOutcome(St, "none"))
    /\ UNCHANGED <<chain, op, args, world, prev>>

NextServer ==
    \/ ToolCheckBalance \/ ToolGetTransactions \/ ToolGetTokenTransfers
    \/ ToolGetContractAbi \/ ToolGetGasPrices \/ ToolDetectWhaleClass
    \/ ToolAnalyzeWhale \/ ToolCompareWhales
    \/ ToolDiscoverWhaleMovements \/ ToolDiscoverTopWhales \/ ToolTrackExchangeWhales
    \/ AnalyzeBalance \/ AnalyzeTransactions \/ AnalyzeTokens
    \/ MovementsSeed \/ ExchangeSeed \/ TopSeed \/ TopAddress
    \/ ToolReturn

SpecServer == InitServer /\ [][NextServer]_vars

(***************************************************************************)
(* core/server.py: the per-chain registries.  world = [api_key, _services, *)
(* _whale_detectors]: the two module dictionaries, as functions from the   *)
(* keys present; a service is named by the number of its construction, and *)
(* calls logs the constructions.  The tool invocations are tasks of one    *)
(* event loop: a task runs without interruption from its start to its      *)
(* await, and other tasks may run while it awaits.  prev holds the         *)
(* registries as they were before the latest invocation started.           *)
(***************************************************************************)
PolygonName == <<"p","o","l","y","g","o","n">>

\* the keys of CHAIN_REGISTRY, as the characters of the names
CHAIN_REGISTRY == {EthereumName, BscName}

RegistryNames == {EthereumName, Upper(EthereumName), BscName, PolygonName}

NoService == 0

Registries(w) == [_services |-> w._services, _whale_detectors |-> w._whale_detectors]

Put(dict, key, v) == [k \in DOMAIN dict \cup {key} |-> IF k = key THEN v ELSE dict[k]]

\* how a call of a registry function ends: the registries after it, the
\* exception raised, the value returned, the service constructed (if any)
Got(w, exc, val, built) == [world |-> w, exc |-> exc, val |-> val, built |-> built]

_get_service_rebuilds(w, name, id) ==
    LET chain_lower == Lower(name)
    IN IF chain_lower \notin CHAIN_REGISTRY \/ ~w.api_key
       THEN Got(w, "ValueError", NoService, <<>>)
       ELSE Got([w EXCEPT !._services = Put(@, chain_lower, id),
                          !._whale_detectors = Put(@, chain_lower, [blockchain |-> id])],
                "none", id, <<chain_lower>>)

\* _get_service(chain); id names the BlockchainService it may construct
_get_service(w, name, id) ==
    LET chain_lower == Lower(name)
    IN IF chain_lower \in DOMAIN w._services
       THEN Got(w, "none", w._services[chain_lower], <<>>)
       ELSE IF chain_lower \notin CHAIN_REGISTRY \/ ~w.api_key
       THEN Got(w, "ValueError", NoService, <<>>)
       ELSE Got([w EXCEPT !._services = Put(@, chain_lower, id),
                          !._whale_detectors = Put(@, chain_lower, [blockchain |-> id])],
                "none", id, <<chain_lower>>)

\* _get_whale_detector(chain)
_get_whale_detector(w, name, id) ==
    LET s == _get_service(w, name, id)
    IN IF s.exc # "none" THEN s
       ELSE IF Lower(name) \notin DOMAIN s.world._whale_detectors
       THEN Got(s.world, "KeyError", NoService, s.built)
       ELSE Got(s.world, "none", s.world._whale_detectors[Lower(name)], s.built)

Built(log, g) ==
    IF g.built = <<>> THEN log
    ELSE Append(log, [fn |-> "BlockchainService", address |-> g.built[1],
                      exc |-> "none", n |-> Len(log) + 1])

TaskFree == [pc |-> "free", chain |-> <<>>, service |-> NoService, detector |-> <<>>]

InitRegistry ==
    /\ chain = "ethereum"
    /\ op = "idle"
    /\ args = <<>>
    /\ pc = "tasks"
    /\ loc = [task |-> [t \in Tasks |-> TaskFree]]
    /\ result = 0
    /\ raised = "none"
    /\ world \in [kind : {"registry"}, api_key : BOOLEAN, _services : {<<>>},
                  _whale_detectors : {<<>>}]
    /\ calls = <<>>
    /\ prev = NoPrev

\* a task starts a tool that uses the service only (check_balance,
\* get_transactions, ...), up to its await
ServiceToolStart(t) ==
    \E name \in RegistryNames :
        /\ pc = "tasks" /\ loc.task[t].pc = "free"
        /\ \E g \in {_get_service(world, name, Len(calls) + 1)} :
              /\ world' = g.world
              /\ calls' = Built(calls, g)
              /\ raised' = g.exc
              /\ result' = g.val
              /\ loc' = [loc EXCEPT !.task[t] =
                            IF g.exc # "none" THEN TaskFree
                            ELSE [pc |-> "await", chain |-> name, service |-> g.val,
                                  detector |-> <<>>]]
        /\ op' = "check_balance"
        /\ args' = [task |-> t, chain |-> name]
        /\ prev' = [set |-> TRUE, was |-> Registries(world)]
        /\ UNCHANGED <<chain, pc>>

\* a task starts a tool that uses the detector (analyze_whale, compare_whales,
\* the discovery tools), up to its await
DetectorToolStart(t) ==
    \E name \in RegistryNames :
        /\ pc = "tasks" /\ loc.task[t].pc = "free"
        /\ \E d \in {_get_whale_detector(world, name, Len(calls) + 1)} :
           \E g \in {IF d.exc # "none" THEN d
                     ELSE _get_service(d.world, name, Len(Built(calls, d)) + 1)} :
              /\ world' = g.world
              /\ calls' = Built(Built(calls, d), g)
              /\ raised' = g.exc
              /\ result' = g.val
              /\ loc' = [loc EXCEPT !.task[t] =
                            IF g.exc # "none" THEN TaskFree
                            ELSE [pc |-> "await", chain |-> name, service |-> g.val,
                                  detector |-> d.val]]
        /\ op' = "analyze_whale"
        /\ args' = [task |-> t, chain |-> name]
        /\ prev' = [set |-> TRUE, was |-> Registries(world)]
        /\ UNCHANGED <<chain, pc>>

\* the awaited call of a task ends and its tool returns
ToolEnd(t) ==
    /\ pc = "tasks" /\ loc.task[t].pc = "await"
    /\ loc' = [loc EXCEPT !.task[t] = TaskFree]
    /\ UNCHANGED <<chain, op, args, pc, result, raised, world, calls, prev>>

\* the environment of the process gains or loses the API key
SetApiKey ==
    /\ pc = "tasks"
    /\ world' = [world EXCEPT !.api_key = ~@]
    /\ prev' = [set |-> TRUE, was |-> Registries(world)]
    /\ raised' = "none"
    /\ UNCHANGED <<chain, op, args, pc, loc, result, calls>>

NextRegistry ==
    \/ \E t \in Tasks : ServiceToolStart(t)
    \/ \E t \in Tasks : DetectorToolStart(t)
    \/ \E t \in Tasks : ToolEnd(t)
    \/ SetApiKey

SpecRegistry == InitRegistry /\ [][NextRegistry]_vars

(***************************************************************************)
(* Claims.                                                                 *)
(***************************************************************************)
TierRank(t) ==
    CASE t = "shrimp" -> 0
      [] t = "small_whale" -> 1
      [] t = "medium_whale" -> 2
      [] t = "large_whale" -> 3
      [] t = "mega_whale" -> 4

\* C1: classify_whale(b) is MEGA_WHALE iff b >= 10000, LARGE_WHALE iff
\* 1000 <= b < 10000, MEDIUM_WHALE iff 100 <= b < 1000, SMALL_WHALE iff
\* 10 <= b < 100 and SHRIMP iff b < 10 (zero and negative balances included);
\* of two calls, the one with the larger balance never gets the lower tier, and
\* equal balances get equal tiers.
C1_ClassifyThresholds ==
    (op = "classify_whale" /\ pc = "done") =>
        LET b == args.balance IN
        /\ raised = "none"
        /\ (result = "mega_whale") <=> (b >= 10000 * Unit)
        /\ (result = "large_whale") <=> (1000 * Unit <= b /\ b < 10000 * Unit)
        /\ (result = "medium_whale") <=> (100 * Unit <= b /\ b < 1000 * Unit)
        /\ (result = "small_whale") <=> (10 * Unit <= b /\ b < 100 * Unit)
        /\ (result = "shrimp") <=> (b < 10 * Unit)
        /\ prev.set =>
              /\ (prev.balance <= b => TierRank(prev.tier) <= TierRank(result))
              /\ (prev.balance = b => prev.tier = result)

C1_Witness ==
    /\ op = "classify_whale" /\ pc = "done" /\ prev.set
    /\ prev.balance = 100 * Unit - 1 /\ prev.tier = "small_whale"
    /\ args.balance = 100 * Unit /\ result = "medium_whale"

\* C2: get_movement_significance(v) is the mega tag iff v >= 10000, the
\* critical tag iff 5000 <= v < 10000, the major tag iff 1000 <= v < 5000, the
\* significant tag iff 500 <= v < 1000 and the notable tag iff v < 500.
C2_SignificanceThresholds ==
    (op = "get_movement_significance" /\ pc = "done") =>
        LET v == args.value IN
        /\ raised = "none"
        /\ (result = "[!!!] MEGA MOVEMENT") <=> (v >= 10000 * Unit)
        /\ (result = "[!!] CRITICAL") <=> (5000 * Unit <= v /\ v < 10000 * Unit)
        /\ (result = "[!] MAJOR") <=> (1000 * Unit <= v /\ v < 5000 * Unit)
        /\ (result = "[*] SIGNIFICANT") <=> (500 * Unit <= v /\ v < 1000 * Unit)
        /\ (result = "[-] NOTABLE") <=> (v < 500 * Unit)

C2_Witness ==
    /\ op = "get_movement_significance" /\ pc = "done"
    /\ args.value = 5000 * Unit /\ result = "[!!] CRITICAL"

\* C3: whenever _calculate_risk_score or _calculate_activity_score returns,
\* the score lies in [0,100]; the risk score is 0, not negative, when the
\* known-whale reduction is the only contribution that applies.
C3_ScoresInRange ==
    (pc = "done" /\ raised = "none"
        /\ op \in {"_calculate_risk_score", "_calculate_activity_score"}) =>
        /\ 0 <= result /\ result <= 100
        /\ (op = "_calculate_risk_score"
              /\ RiskFactors(args.address, args.transactions, args.balance) = <<-20>>)
             => result = 0

C3_Witness ==
    /\ op = "_calculate_risk_score" /\ pc = "done" /\ raised = "none"
    /\ args.address = <<"D","E","0","B">> /\ chain = "ethereum"
    /\ args.balance <= 1000 * Unit
    /\ Len(args.transactions) = 2
    /\ RiskFactors(args.address, args.transactions, args.balance) = <<-20>>
    /\ result = 0

\* the activity score reaches the top of its range
C3_WitnessActivity ==
    /\ op = "_calculate_activity_score" /\ pc = "done" /\ raised = "none"
    /\ Len(args.transactions) = 21 /\ result = 100

\* the data-source calls among the entries of a log
DataCalls(log) == SelectSeq(log, LAMBDA c : c.fn \in {"get_balance", "get_transactions",
                                                      "get_token_transfers"})
FnsOf(log) == [i \in 1..Len(log) |-> log[i].fn]

\* a field analyze_whale converts is malformed: the value of any transaction, or
\* the timestamp of one of the first 20 or of the last
ReadFieldMalformed(txs) ==
    \/ \E i \in 1..Len(txs) : txs[i].value[1] # "int"
    \/ \E i \in 1..Len(txs) : (i <= 20 \/ i = Len(txs)) /\ txs[i].timeStamp[1] # "int"

\* C4: the list compare_whales returns is in non-increasing order of balance,
\* and two returned metrics of equal balance are in the order their addresses
\* had in the input list.
PosIn(l, a) == CHOOSE i \in 1..Len(l) : l[i] = a

C4_CompareSortedStable ==
    (op = "compare_whales" /\ pc = "done" /\ raised = "none") =>
        \A i, j \in 1..Len(result) :
            i < j =>
                /\ result[i].eth_balance >= result[j].eth_balance
                /\ (result[i].eth_balance = result[j].eth_balance =>
                        PosIn(args.addresses, result[i].address)
                            < PosIn(args.addresses, result[j].address))

C4_Witness ==
    /\ op = "compare_whales" /\ pc = "done" /\ raised = "none"
    /\ Len(result) = 3
    /\ result[1].address = args.addresses[3]
    /\ result[1].eth_balance > result[2].eth_balance
    /\ result[2].eth_balance = result[3].eth_balance
    /\ result[2].address = args.addresses[1]

\* C5: compare_whales always returns, and its result holds the metrics of
\* exactly the input addresses whose analysis succeeded: a failed analysis is
\* skipped and every input address is analysed.
AnalysesOf(log) == SelectSeq(log, LAMBDA c : c.fn = "analyze_whale")

C5_FailedAnalysisSkipped ==
    (op = "compare_whales" /\ pc = "done") =>
        /\ raised = "none"
        /\ FnsOf(AnalysesOf(calls)) = [i \in 1..Len(args.addresses) |-> "analyze_whale"]
        /\ {result[i].address : i \in 1..Len(result)}
              = {AnalysesOf(calls)[i].address :
                    i \in {k \in 1..Len(AnalysesOf(calls)) : AnalysesOf(calls)[k].exc = "none"}}

\* C6: in discover_whale_movements, discover_top_whales and
\* track_exchange_whales a data-source failure (a transport error or an error
\* the explorer reports) met at one seed or one counterparty is caught for that
\* item: the routine does not raise, it goes on to request the transactions of
\* every seed and returns what the other items gave.
DiscoveryOps == {"discover_whale_movements", "discover_top_whales", "track_exchange_whales"}

SeedsOf(o) ==
    CASE o = "discover_whale_movements" -> MonitorSeeds
      [] o = "discover_top_whales" -> TopSeeds
      [] OTHER -> ExchangeSeeds

SourceFailed(log) ==
    \E i \in 1..Len(log) :
        /\ log[i].fn \in {"get_balance", "get_transactions"}
        /\ log[i].exc = "Exception"

TransactionRequests(log) == SelectSeq(log, LAMBDA c : c.fn = "get_transactions")

C6_SourceFailureCaughtPerItem ==
    (op \in DiscoveryOps /\ pc = "done" /\ SourceFailed(calls)) =>
        /\ raised = "none"
        /\ [i \in 1..Len(TransactionRequests(calls)) |-> TransactionRequests(calls)[i].address]
              = SeedsOf(op)

\* C7: analyze_whale returns a WhaleMetrics only when every data-source call
\* it issued succeeded and every field it converts parsed; when a call fails
\* or such a field is malformed it raises and returns nothing.
C7_AnalyzeAllOrNothing ==
    (op = "analyze_whale" /\ pc = "done") =>
        LET dc == DataCalls(calls)
            failed == \/ \E i \in 1..Len(dc) : dc[i].exc # "none"
                      \/ ReadFieldMalformed(loc.transactions)
        IN IF failed
           THEN raised = "Exception" /\ result = 0
           ELSE /\ raised = "none"
                /\ result.address = args.address
                /\ \/ FnsOf(dc) = <<"get_balance", "get_transactions", "get_token_transfers">>
                   \/ FnsOf(dc) = <<"get_balance", "get_transactions">> /\ dc[2].n = 0

C7_Witness ==
    /\ op = "analyze_whale" /\ pc = "done" /\ raised = "Exception"
    /\ FnsOf(DataCalls(calls)) = <<"get_balance", "get_transactions", "get_token_transfers">>
    /\ DataCalls(calls)[1].exc = "none" /\ DataCalls(calls)[2].exc = "none"
    /\ DataCalls(calls)[3].exc # "none"
    /\ ~ReadFieldMalformed(loc.transactions)

\* C9: when the transaction list fetched for an address is empty, analyze_whale
\* returns, without error, metrics whose counts, average, maximum, scores and
\* token diversity are 0 and whose first_seen and last_activity are absent, with
\* the fetched balance and the tier of that balance.
EmptyListFetched ==
    /\ Len(DataCalls(calls)) >= 2
    /\ DataCalls(calls)[1].exc = "none"
    /\ DataCalls(calls)[2].fn = "get_transactions"
    /\ DataCalls(calls)[2].exc = "none"
    /\ DataCalls(calls)[2].n = 0

C9_EmptyHistoryZeroMetrics ==
    (op = "analyze_whale" /\ pc = "done" /\ EmptyListFetched) =>
        /\ raised = "none"
        /\ result.total_transactions = 0 /\ result.large_transactions = 0
        /\ result.avg_transaction_value = 0 /\ result.max_transaction_value = 0
        /\ result.activity_score = 0 /\ result.risk_score = 0
        /\ result.token_diversity = 0
        /\ result.first_seen = NoneField /\ result.last_activity = NoneField
        /\ result.eth_balance = DataCalls(calls)[1].n
        /\ result.whale_class = classify_whale(DataCalls(calls)[1].n)
        /\ result.address = args.address

C9_Witness ==
    /\ op = "analyze_whale" /\ pc = "done" /\ EmptyListFetched /\ raised = "none"
    /\ chain = "ethereum" /\ args.address = <<"D","E","0","B">>
    /\ result.eth_balance = 10000 * Unit /\ result.whale_class = "mega_whale"
    /\ result.risk_score = 0


\* C8: whatever the data source answers, discover_whale_movements returns at
\* most 50 items, track_exchange_whales at most 30 and discover_top_whales at
\* most 20; the returned list is in non-increasing order of its ranking value
\* (value, value, balance), it is drawn from the collected items, as many of
\* them as the limit allows, and every collected item left out has a ranking
\* value no greater than that of every returned item.
LimitOf(o) ==
    CASE o = "discover_whale_movements" -> 50
      [] o = "discover_top_whales" -> 20
      [] OTHER -> 30

RankKey(o) == IF o = "discover_top_whales" THEN "eth_balance" ELSE "value_eth"

Occurs(l, x) == Cardinality({i \in 1..Len(l) : l[i] = x})

C8_BoundedRankedTop ==
    (op \in DiscoveryOps /\ pc = "done" /\ raised = "none") =>
        LET key == RankKey(op)
            collected == loc.acc
        IN /\ Len(result) <= LimitOf(op)
           /\ Len(result) = Min2(LimitOf(op), Len(collected))
           /\ \A i \in 1..(Len(result) - 1) : result[i][key] >= result[i + 1][key]
           /\ \A i \in 1..Len(result) : Occurs(result, result[i]) <= Occurs(collected, result[i])
           /\ \A j \in 1..Len(collected) :
                  Occurs(collected, collected[j]) > Occurs(result, collected[j]) =>
                      \A i \in 1..Len(result) : collected[j][key] <= result[i][key]

\* every routine cuts a list that is longer than its limit and was not
\* collected in order
CutUnordered(o) ==
    /\ op = o /\ pc = "done" /\ raised = "none"
    /\ Len(loc.acc) > LimitOf(o) /\ Len(result) = LimitOf(o)
    /\ \E j \in 1..(Len(loc.acc) - 1) : loc.acc[j][RankKey(o)] < loc.acc[j + 1][RankKey(o)]
    /\ result[1][RankKey(o)] > result[LimitOf(o)][RankKey(o)]

C8_Witness == CutUnordered("discover_whale_movements")
C8_WitnessExchange == CutUnordered("track_exchange_whales")
C8_WitnessTop == CutUnordered("discover_top_whales")

\* C10: in track_exchange_whales every recorded movement is a "deposit"
\* exactly when the recipient of the transaction is the monitored exchange
\* address, compared without regard to case, and its whale_address is then the
\* sender; every other recorded movement, and so every one the exchange sent
\* to another address, is a "withdrawal" whose whale_address is the recipient.
TxOfMovement(m) == PageTx(m.exchange_address, m.hash % 100, FALSE)
ExchangeReceives(m) == Lower(TxOfMovement(m).to) = Lower(m.exchange_address)
ExchangeSends(m) == Lower(TxOfMovement(m).from) = Lower(m.exchange_address)
Recorded == {loc.acc[i] : i \in 1..Len(loc.acc)}

C10_DepositByRecipient ==
    (op = "track_exchange_whales") =>
        \A m \in Recorded :
            /\ m.movement_type \in {"deposit", "withdrawal"}
            /\ m.movement_type = "deposit" <=> ExchangeReceives(m)
            /\ m.movement_type = "deposit" => m.whale_address = TxOfMovement(m).from
            /\ m.movement_type = "withdrawal" => m.whale_address = TxOfMovement(m).to
            /\ (ExchangeSends(m) /\ ~ExchangeReceives(m)) => m.movement_type = "withdrawal"

\* a deposit received at the address in capitals, a withdrawal sent from it in
\* capitals, and a transfer of the exchange to itself, all recorded
C10_Witness ==
    /\ op = "track_exchange_whales" /\ pc = "done" /\ raised = "none"
    /\ \E m \in Recorded :
          /\ m.movement_type = "deposit" /\ ~ExchangeSends(m)
          /\ TxOfMovement(m).to # m.exchange_address
    /\ \E m \in Recorded :
          /\ m.movement_type = "withdrawal" /\ ExchangeSends(m)
          /\ TxOfMovement(m).from # m.exchange_address
    /\ \E m \in Recorded : ExchangeSends(m) /\ ExchangeReceives(m)

\* C10 as stated: "deposit" exactly when the exchange is the recipient and
\* "withdrawal" exactly when the exchange is the sender
C10_AsStated ==
    (op = "track_exchange_whales") =>
        \A m \in Recorded :
            /\ m.movement_type = "deposit" <=> ExchangeReceives(m)
            /\ m.movement_type = "deposit" => m.whale_address = TxOfMovement(m).from
            /\ m.movement_type = "withdrawal" <=> ExchangeSends(m)
            /\ m.movement_type = "withdrawal" => m.whale_address = TxOfMovement(m).to


\* C11: the activity score of an empty list is 0; otherwise it is
\* min(100, (r/20)*100) where r counts, among the first 20 transactions only,
\* those that occurred within the last 30 days; 20 such transactions give 100
\* and transactions after the first 20 never change the score.
WithinLast30Days(ts) == Now - ts <= 30 * SecondsPerDay

RecentAmongFirst20(txs) ==
    Cardinality({i \in 1..Min2(20, Len(txs)) : WithinLast30Days(txs[i].timeStamp[2])})

C11_ActivityScoreFormula ==
    (op = "_calculate_activity_score" /\ pc = "done" /\ raised = "none") =>
        result = IF args.transactions = <<>> THEN 0
                 ELSE Min2(100, (RecentAmongFirst20(args.transactions) * 100) \div 20)


\* C12: an explorer response with error status whose message contains "No
\* transactions found" is never turned into an exception: get_transactions and
\* get_token_transfers return an empty list for it; an error-status response
\* whose message does not contain that phrase, or that has no message, raises.
ListCallAnswered ==
    /\ op \in {"get_transactions", "get_token_transfers"} /\ pc = "done"
    /\ ErrorStatus(world.response)

C12_NoTransactionsIsEmpty ==
    ListCallAnswered =>
        IF Contains(MessageOf(world.response), NoTransactionsFound)
        THEN raised = "none" /\ result = <<>>
        ELSE raised = "Exception"

\* the phrase inside a longer message gives the empty list
C12_Witness ==
    /\ ListCallAnswered /\ op = "get_token_transfers"
    /\ MessageOf(world.response) = NoTransactionsFound \o <<"for", "this", "address">>
    /\ raised = "none" /\ result = <<>>

C12_WitnessExact ==
    /\ ListCallAnswered /\ op = "get_transactions"
    /\ MessageOf(world.response) = NoTransactionsFound
    /\ raised = "none" /\ result = <<>>

C12_WitnessOther ==
    /\ ListCallAnswered /\ world.response.kind = "status0_bare"
    /\ raised = "Exception"

\* C12 as stated: the empty list for the message "No transactions found", a
\* failure for every other message
C12_AsStated ==
    ListCallAnswered =>
        IF MessageOf(world.response) = NoTransactionsFound
        THEN raised = "none" /\ result = <<>>
        ELSE raised # "none"


\* C13: for each chain at most one explorer request is in flight at any time:
\* the requests of concurrent invocations sharing the chain's service are
\* serialized, a second one is never sent while an earlier one awaits its
\* response.
C13_SingleInflight ==
    (pc = "tasks") => Cardinality(world.inflight) <= 1


\* C14: validate_address returns a value exactly for the strings made of "0x"
\* followed by exactly 40 (here HexLen) hexadecimal characters and nothing
\* else, and the value is the input in lower case; for every other input it
\* raises ValueError.
WellFormedAddress(x) ==
    /\ x.type = "str"
    /\ Len(x.chars) = 2 + HexLen
    /\ x.chars[1] = "0" /\ x.chars[2] = "x"
    /\ \A i \in 3..(2 + HexLen) : IsHex(x.chars[i])

C14_AcceptsExactlyWellFormed ==
    (op = "validate_address" /\ pc = "done") =>
        IF WellFormedAddress(args.address)
        THEN raised = "none" /\ result = Str(Lower(args.address.chars))
        ELSE raised = "ValueError"

\* C15: for every input x that validate_address accepts,
\* validate_address(validate_address(x)) succeeds and equals validate_address(x).
C15_NormalizeIdempotent ==
    (op = "validate_address" /\ pc = "done2") =>
        /\ raised = "none"
        /\ result = prev.first
        /\ prev.first = validate_address(args.address).val

\* a mixed-case address, whose normal form differs from it
C15_Witness ==
    /\ op = "validate_address" /\ pc = "done2" /\ raised = "none"
    /\ args.address = Str(<<"0","x">> \o [i \in 1..HexLen |-> IF i = 1 THEN "a" ELSE "F"])
    /\ result # args.address
    /\ result = prev.first


\* C18: get_known_whales(chain) and get_exchange_addresses(chain) never raise:
\* for a chain that has a table they return that chain's mapping of addresses
\* to labels, the chain name being matched without regard to case, and for any
\* other name they return an empty mapping.
SameIgnoringCase(a, b) ==
    /\ Len(a) = Len(b)
    /\ \A i \in 1..Len(a) : a[i] = b[i] \/ UpperChar(a[i]) = b[i] \/ a[i] = UpperChar(b[i])

TableFor(chains(_), name) ==
    IF SameIgnoringCase(name, EthereumName) THEN chains("ethereum")
    ELSE IF SameIgnoringCase(name, BscName) THEN chains("bsc")
    ELSE <<>>

C18_TablesByChainName ==
    /\ (op = "get_known_whales" /\ pc = "done") =>
          raised = "none" /\ result = TableFor(KNOWN_WHALES, args.chain)
    /\ (op = "get_exchange_addresses" /\ pc = "done") =>
          raised = "none" /\ result = TableFor(EXCHANGE_ADDRESSES, args.chain)

\* a name in mixed case gets the table of its chain
C18_Witness ==
    /\ op = "get_known_whales" /\ pc = "done" /\ raised = "none"
    /\ args.chain = <<"e","T","h","E","r","E","u","M">>
    /\ Len(result) = 6 /\ result[1].label = "Ethereum Foundation"

C18_WitnessUnknown ==
    /\ op = "get_exchange_addresses" /\ pc = "done" /\ raised = "none"
    /\ args.chain = <<"p","o","l","y","g","o","n">>
    /\ result = <<>>


\* C19: for every address, balance and non-empty transaction list the risk
\* score is the sum, clamped to [0,100], of: +30 iff balance > 1000; -20 iff
\* the address, compared without regard to case, is in the known-whale table;
\* +25 iff strictly more than half of the transactions have value > 100; +40
\* iff the last (oldest) transaction is less than 30 days old; the order in
\* which the four are taken does not matter.
Contribution(cond, points) == IF cond THEN points ELSE 0

HighBalance == args.balance > 1000 * Unit
KnownWhale == \E i \in 1..Len(known_whales) : SameIgnoringCase(args.address, known_whales[i].addr)
MostlyLarge ==
    2 * Cardinality({i \in 1..Len(args.transactions) :
                        args.transactions[i].value[2] > 100 * Unit})
        > Len(args.transactions)
OldestIsNew ==
    Now - args.transactions[Len(args.transactions)].timeStamp[2] < 30 * SecondsPerDay

Clamp(x) == IF x < 0 THEN 0 ELSE IF x > 100 THEN 100 ELSE x

C19_RiskScoreSum ==
    (op = "_calculate_risk_score" /\ pc = "done" /\ raised = "none"
        /\ args.transactions # <<>>) =>
        /\ result = Clamp(Contribution(HighBalance, 30) + Contribution(KnownWhale, -20)
                            + Contribution(MostlyLarge, 25) + Contribution(OldestIsNew, 40))
        /\ result = Clamp(Contribution(OldestIsNew, 40) + Contribution(MostlyLarge, 25)
                            + Contribution(KnownWhale, -20) + Contribution(HighBalance, 30))

\* all four apply
C19_Witness ==
    /\ op = "_calculate_risk_score" /\ pc = "done" /\ raised = "none"
    /\ Len(args.transactions) = 2
    /\ HighBalance /\ KnownWhale /\ MostlyLarge /\ OldestIsNew
    /\ args.address = <<"D","E","0","B">>
    /\ result = 75

\* exactly half of the transactions are large, which is not enough
C19_WitnessHalf ==
    /\ op = "_calculate_risk_score" /\ pc = "done" /\ raised = "none"
    /\ Len(args.transactions) = 2
    /\ args.transactions[1].value = IntField(100 * Unit + 1)
    /\ args.transactions[2].value = IntField(100 * Unit)
    /\ ~KnownWhale /\ ~HighBalance /\ OldestIsNew
    /\ result = 40

\* C20: within one analyze_whale invocation the data-source calls are issued
\* in the order balance, transaction list (page 1, up to 100), token transfers
\* (page 1, up to 50), each at most once; the token transfers are requested
\* only if the transaction list was not empty, and once a call has failed no
\* further call is issued.
IsPrefix(a, b) == Len(a) <= Len(b) /\ a = SubSeq(b, 1, Len(a))

C20_AnalyzeCallOrder ==
    (op = "analyze_whale") =>
        LET dc == DataCalls(calls)
        IN /\ IsPrefix(FnsOf(dc), <<"get_balance", "get_transactions", "get_token_transfers">>)
           /\ \A i \in 1..Len(dc) : dc[i].address = args.address
           /\ \A i \in 1..(Len(dc) - 1) : dc[i].exc = "none"
           /\ Len(dc) >= 2 => dc[2].page = 1 /\ dc[2].offset = 100
           /\ Len(dc) = 3 => dc[3].page = 1 /\ dc[3].offset = 50 /\ dc[2].n > 0
           /\ (pc = "done" /\ raised = "none") =>
                  \/ Len(dc) = 3
                  \/ Len(dc) = 2 /\ dc[2].n = 0

\* the three calls, all answered, and the metrics returned
C20_Witness ==
    /\ op = "analyze_whale" /\ pc = "done" /\ raised = "none"
    /\ FnsOf(DataCalls(calls)) = <<"get_balance", "get_transactions", "get_token_transfers">>
    /\ DataCalls(calls)[2].n = 2
    /\ result.token_diversity = 2

\* the transaction list fails: no token transfers are requested
C20_WitnessFailed ==
    /\ op = "analyze_whale" /\ pc = "done" /\ raised = "Exception"
    /\ FnsOf(DataCalls(calls)) = <<"get_balance", "get_transactions">>
    /\ DataCalls(calls)[2].exc # "none"


\* C16: every tool of the server returns a text for every outcome: an error
\* raised by validation, by the initialisation of the service, by the data
\* source or by the analysis is rendered as an error text, and no exception
\* leaves the tool.
ToolNames ==
    {"check_balance", "get_transactions", "get_token_transfers", "get_contract_abi",
     "get_gas_prices", "analyze_whale", "detect_whale_class", "compare_whales",
     "discover_whale_movements", "discover_top_whales", "track_exchange_whales"}

C16_ToolsReturnText ==
    /\ [](pc = "returned" =>
            /\ args.tool \in ToolNames
            /\ raised = "none"
            /\ result.kind = "text"
            /\ result.exc # "none" => result.error)
    /\ [][(raised # "none") =>
            /\ pc' = "returned" /\ raised' = "none"
            /\ result' = Text(TRUE, raised)]_vars

\* an exception of the detector rendered as an error text
C16_Witness ==
    /\ pc = "returned" /\ args.tool = "analyze_whale"
    /\ Len(calls) > 0 /\ calls[Len(calls)].fn = "analyze_whale"
    /\ calls[Len(calls)].exc = "Exception"
    /\ result = Text(TRUE, "Exception") /\ raised = "none"

C16_WitnessInit ==
    /\ pc = "returned" /\ args.tool = "get_gas_prices" /\ ~world.api_key
    /\ result = Text(TRUE, "ValueError") /\ calls = <<>>

C16_WitnessDiscovery ==
    /\ pc = "returned" /\ args.tool = "track_exchange_whales"
    /\ result = Text(TRUE, "Exception") /\ raised = "none"

\* C17: invalid input never reaches the core or the data source: a tool called
\* with a malformed address, with a list of fewer than 2 or more than 10
\* addresses or one holding a malformed address, or with a non-positive
\* minimum returns an error text without any data-source request and without
\* any analysis.
InvalidInput ==
    CASE args.tool \in {"check_balance", "get_transactions", "get_token_transfers",
                        "get_contract_abi", "analyze_whale", "detect_whale_class"} ->
           ~WellFormedAddress(Str(args.input))
      [] args.tool = "compare_whales" ->
           LET l == ParseAddresses(args.input)
           IN \/ Len(l) < 2 \/ Len(l) > 10
              \/ \E i \in 1..Len(l) : ~WellFormedAddress(Str(l[i]))
      [] args.tool \in {"discover_whale_movements", "discover_top_whales",
                        "track_exchange_whales"} ->
           args.input <= 0
      [] OTHER -> FALSE

C17_InvalidInputStopsAtTool ==
    (pc # "idle" /\ InvalidInput) =>
        /\ calls = <<>>
        /\ pc \in {"done", "returned"}
        /\ pc = "done" => raised # "none"
        /\ pc = "returned" => result.error

\* C21: every record discover_top_whales(min_balance) returns has a balance
\* >= min_balance, the one a balance lookup of this invocation reported for
\* its address, carries the discovery method "transaction_analysis" and the
\* tier classify_whale gives for that balance, is an endpoint of a transaction
\* of value >= 50 fetched from a seed, and no two records have addresses that
\* are equal ignoring case.
TopReturned == op = "discover_top_whales" /\ pc = "done" /\ raised = "none"

\* the transactions the explorer gives for the i-th seed of discover_top_whales
SeedPage(i) ==
    LET t == get_transactions(PageAnswer(i, TopSeeds[i]))
    IN IF t.exc = "none" THEN t.val ELSE <<>>

EndpointOfLargeTx(a) ==
    \E i \in 1..Len(TopSeeds) :
       \E k \in 1..Len(SeedPage(i)) :
          /\ GetInt(SeedPage(i)[k].value).exc = "none"
          /\ GetInt(SeedPage(i)[k].value).val >= 50 * Unit
          /\ a \in {SeedPage(i)[k].from, SeedPage(i)[k].to}

LookedUp(a, balance) ==
    \E c \in 1..Len(calls) :
       /\ calls[c].fn = "get_balance" /\ calls[c].address = a
       /\ calls[c].exc = "none" /\ calls[c].n = balance

C21_TopWhaleRecords ==
    TopReturned =>
        /\ \A r \in 1..Len(result) :
              /\ result[r].eth_balance >= args.min_balance
              /\ LookedUp(result[r].address, result[r].eth_balance)
              /\ result[r].discovery_method = "transaction_analysis"
              /\ result[r].whale_class = classify_whale(result[r].eth_balance)
              /\ EndpointOfLargeTx(result[r].address)
        /\ \A r, q \in 1..Len(result) :
              Lower(result[r].address) = Lower(result[q].address) => r = q

\* several records returned, an address met in both cases among the seeds'
\* transactions, and a looked-up address left out for its balance
C21_Witness ==
    /\ TopReturned /\ Len(result) >= 2
    /\ \E a \in {HexAddr(10)} : EndpointOfLargeTx(a) /\ EndpointOfLargeTx(Upper(a))
    /\ \E c \in 1..Len(calls) :
          /\ calls[c].fn = "get_balance" /\ calls[c].exc = "none"
          /\ calls[c].n < args.min_balance

\* C22: each discovery routine has a bounded data-source cost per invocation,
\* whatever the data source returns: discover_top_whales issues at most 5
\* transaction-list fetches and at most 30 balance lookups,
\* track_exchange_whales at most 5 transaction-list fetches and
\* discover_whale_movements at most 10 transaction-list fetches.
Requests(f) == Cardinality({c \in 1..Len(calls) : calls[c].fn = f})

C22_BoundedCost ==
    /\ op = "discover_top_whales" =>
          Requests("get_transactions") <= 5 /\ Requests("get_balance") <= 30
    /\ op = "track_exchange_whales" => Requests("get_transactions") <= 5
    /\ op = "discover_whale_movements" => Requests("get_transactions") <= 10

\* both caps of discover_top_whales reached, with more known whales than 5
\* and more discovered addresses than 30
C22_Witness ==
    /\ op = "discover_top_whales" /\ pc = "done" /\ raised = "none"
    /\ Len(Keys(known_whales)) > 5 /\ Requests("get_transactions") = 5
    /\ Len(loc.found) > 30 /\ Requests("get_balance") = 30

C22_WitnessExchange ==
    /\ op = "track_exchange_whales" /\ pc = "done" /\ raised = "none"
    /\ Len(Keys(exchange_addresses)) > 5 /\ Requests("get_transactions") = 5

C22_WitnessMovements ==
    /\ op = "discover_whale_movements" /\ pc = "done" /\ raised = "none"
    /\ Len(AllKnown) > 10 /\ Requests("get_transactions") = 10

\* C23: the seeds discover_whale_movements scans are the first 10 elements of
\* the set union of the chain's known-whale and known-exchange addresses: an
\* address that is both a known whale and a known exchange is scanned at most
\* once per invocation, and its transactions are not collected twice.
SeedRequests == {c \in 1..Len(calls) : calls[c].fn = "get_transactions"}

C23_SeedsScannedOnce ==
    op = "discover_whale_movements" =>
        /\ \A c, e \in SeedRequests :
              Lower(calls[c].address) = Lower(calls[e].address) => c = e
        /\ \A m, q \in 1..Len(loc.acc) : loc.acc[m].hash = loc.acc[q].hash => m = q

\* C24: tier classification in discovery is never cached: in
\* discover_whale_movements each transaction with value >= min_value causes
\* exactly two balance lookups, the sender's and then the recipient's, even
\* when the address was looked up for an earlier movement of the invocation,
\* and nothing is retained on the detector between invocations: a second
\* invocation makes the lookups of the first again.
RECURSIVE PairLookups(_, _)
PairLookups(txs, k) ==
    IF k > Len(txs) THEN <<>>
    ELSE IF GetInt(txs[k].value).exc # "none" THEN <<>>
    ELSE IF GetInt(txs[k].value).val >= args.min_value
    THEN <<txs[k].from, txs[k].to>> \o PairLookups(txs, k + 1)
    ELSE PairLookups(txs, k + 1)

\* the lookups due for the transactions fetched at the i-th turn of the loop
TurnLookups(i) ==
    LET t == get_transactions(PageAnswer(i, MonitorSeeds[i]))
    IN IF t.exc # "none" THEN <<>> ELSE PairLookups(t.val, 1)

RECURSIVE ExpectedLookups(_, _)
ExpectedLookups(i, n) ==
    IF i > n THEN <<>> ELSE TurnLookups(i) \o ExpectedLookups(i + 1, n)

TurnsTaken == IF pc = "mv_seed" THEN loc.i - 1 ELSE Min2(loc.i, Len(MonitorSeeds))

\* no lookup ended with an error that leaves _get_whale_class_cached
EveryLookupAnswered ==
    \A c \in 1..Len(calls) :
       calls[c].fn = "get_balance" => calls[c].exc \in {"none", "ValueError", "HTTPError"}

MovementsReturned == op = "discover_whale_movements" /\ pc = "done" /\ raised = "none"

C24_WitnessUnknown ==
    /\ MovementsReturned /\ world.fault.on = "balance"
    /\ \E c \in 1..Len(calls) : calls[c].fn = "get_balance" /\ calls[c].exc = "ValueError"
    /\ LookupsOf(calls) # <<>>

\* C25: every movement discover_whale_movements(min_value) returns has value
\* >= min_value and every movement track_exchange_whales(min_amount) returns
\* has value >= min_amount, the threshold itself included; a fetched
\* transaction whose value is below the threshold never appears in the result
\* and causes no balance lookup.
MovementOps == {"discover_whale_movements", "track_exchange_whales"}

Threshold == IF op = "discover_whale_movements" THEN args.min_value ELSE args.min_amount

SeedTurns == IF pc \in {"mv_seed", "ex_seed"} THEN loc.i - 1 ELSE Min2(loc.i, Len(SeedsOf(op)))

\* the transactions of the i-th turn the loop has read: those before the
\* first one whose value is malformed
ReadPage(i) ==
    Bind(get_transactions(PageAnswer(i, SeedsOf(op)[i])), LAMBDA t :
        IF t.exc # "none" THEN <<>>
        ELSE Bind({k \in 1..Len(t.val) : GetInt(t.val[k].value).exc # "none"}, LAMBDA bad :
                IF bad = {} THEN t.val
                ELSE SubSeq(t.val, 1, (CHOOSE k \in bad : \A j \in bad : k <= j) - 1)))

\* the transactions read so far, as [hash, value]
ReadTxs ==
    UNION { Bind(ReadPage(i), LAMBDA l :
                {[hash |-> l[k].hash, value |-> GetInt(l[k].value).val] : k \in 1..Len(l)}) :
            i \in 1..SeedTurns }

HashesOf(l) == {l[m].hash : m \in 1..Len(l)}

LookupsPerMovement == IF op = "discover_whale_movements" THEN 2 ELSE 1

C25_InclusiveThreshold ==
    op \in MovementOps =>
        /\ \A m \in 1..Len(loc.acc) : loc.acc[m].value_eth >= Threshold
        /\ (pc = "done" /\ raised = "none") =>
              \A m \in 1..Len(result) : result[m].value_eth >= Threshold
        /\ \A read \in {ReadTxs} : \A recorded \in {HashesOf(loc.acc)} :
              /\ \A t \in read : t.value < Threshold => t.hash \notin recorded
              /\ EveryLookupAnswered =>
                    /\ Len(LookupsOf(calls)) = LookupsPerMovement * Len(loc.acc)
                    /\ \A t \in read : t.value >= Threshold => t.hash \in recorded

\* a movement of exactly the threshold returned, a transaction just below it
\* fetched and left out
C25_Witness ==
    /\ MovementsReturned /\ EveryLookupAnswered
    /\ \E m \in 1..Len(result) : result[m].value_eth = args.min_value
    /\ \E t \in ReadTxs : t.value = args.min_value - Unit

C25_WitnessExchange ==
    /\ op = "track_exchange_whales" /\ pc = "done" /\ raised = "none"
    /\ \E m \in 1..Len(result) : result[m].value_eth = args.min_amount
    /\ \E t \in ReadTxs : t.value = args.min_amount - Unit

\* C26: for a non-empty fetched transaction list, the WhaleMetrics
\* analyze_whale returns has first_seen equal to the timestamp of the last
\* element of the fetched page and last_activity equal to the timestamp of
\* its first element; both are absent exactly when the fetched list is empty.
AnalyzeReturned == op = "analyze_whale" /\ pc = "done" /\ raised = "none"

\* the number of transactions the transaction-list call of the log gave
FetchedCount == DataCalls(calls)[2].n

C26_FirstSeenLastActivity ==
    AnalyzeReturned =>
        /\ Len(loc.transactions) = FetchedCount
        /\ FetchedCount > 0 =>
              /\ result.first_seen = loc.transactions[FetchedCount].timeStamp
              /\ result.last_activity = loc.transactions[1].timeStamp
              /\ result.first_seen # NoneField /\ result.last_activity # NoneField
        /\ FetchedCount = 0 =>
              result.first_seen = NoneField /\ result.last_activity = NoneField

\* a page whose first and last elements carry different timestamps
C26_Witness ==
    /\ AnalyzeReturned /\ FetchedCount >= 2
    /\ loc.transactions[1].timeStamp = Recent
    /\ loc.transactions[FetchedCount].timeStamp = Old
    /\ result.first_seen = Old /\ result.last_activity = Recent

C26_WitnessEmpty ==
    /\ AnalyzeReturned /\ FetchedCount = 0 /\ result.first_seen = NoneField

\* C27: for a non-empty transaction list, token_diversity of the returned
\* WhaleMetrics is the number of distinct contractAddress values among the
\* fetched token transfers, compared exactly as the source gave them (no case
\* normalisation), where all transfers without a contract address count as
\* the one value empty string.
GivenContracts ==
    {loc.token_transfers[i].contractAddress :
        i \in {j \in 1..Len(loc.token_transfers) : loc.token_transfers[j].has}}

SomeContractMissing == \E i \in 1..Len(loc.token_transfers) : ~loc.token_transfers[i].has

DistinctContracts ==
    Cardinality(GivenContracts \cup (IF SomeContractMissing THEN {""} ELSE {}))

C27_TokenDiversity ==
    (AnalyzeReturned /\ FetchedCount > 0) =>
        /\ Len(loc.token_transfers) = DataCalls(calls)[3].n
        /\ result.token_diversity = DistinctContracts

\* two spellings of one contract: two values
C27_Witness ==
    /\ AnalyzeReturned /\ FetchedCount > 0
    /\ GivenContracts = {"0xaa", "0xAA"} /\ ~SomeContractMissing
    /\ result.token_diversity = 2

\* an empty contract address and a missing one: one value
C27_WitnessEmptyAndMissing ==
    /\ AnalyzeReturned /\ FetchedCount > 0
    /\ GivenContracts = {""} /\ SomeContractMissing
    /\ Len(loc.token_transfers) >= 2 /\ result.token_diversity = 1

\* C28: compare_whales analyses the addresses one after the other in input
\* order, every address of the input is reached, and a pacing delay lies
\* between the analyses of any two consecutive addresses, whether the earlier
\* one was analysed successfully or was skipped after a failure.
AnalysisExits == {c \in 1..Len(calls) : calls[c].fn = "analyze_whale"}

PacedBetween(c, e) == \E p \in (c + 1)..(e - 1) : calls[p].fn = "sleep"

C28_PacedInOrder ==
    (op = "compare_whales" /\ pc = "done") =>
        /\ [i \in 1..Len(AnalysesOf(calls)) |-> AnalysesOf(calls)[i].address] = args.addresses
        /\ \A c, e \in AnalysisExits : c < e => PacedBetween(c, e)

\* C29: in discover_whale_movements and track_exchange_whales, when the
\* balance lookup for an endpoint or counterparty of a qualifying transaction
\* fails, the movement is still recorded, with that party's tier "unknown",
\* and scanning goes on with the next transaction of the same seed: a failed
\* lookup drops neither the movement nor the rest of the seed's transactions.
FailedLookups == {c \in 1..Len(calls) : calls[c].fn = "get_balance" /\ calls[c].exc # "none"}

RecordedUnknown(a) ==
    \E m \in 1..Len(loc.acc) :
       IF op = "discover_whale_movements"
       THEN \/ loc.acc[m].from_address = a /\ loc.acc[m].from_whale_class = "unknown"
            \/ loc.acc[m].to_address = a /\ loc.acc[m].to_whale_class = "unknown"
       ELSE loc.acc[m].whale_address = a /\ loc.acc[m].whale_class = "unknown"

C29_FailedLookupGivesUnknown ==
    (op \in MovementOps /\ FailedLookups # {}) =>
        /\ raised = "none"
        /\ \A c \in FailedLookups : RecordedUnknown(calls[c].address)
        /\ Len(LookupsOf(calls)) = LookupsPerMovement * Len(loc.acc)
        /\ \A read \in {ReadTxs} : \A recorded \in {HashesOf(loc.acc)} :
              \A t \in read : t.value >= Threshold => t.hash \in recorded

\* C30: after any sequence of tool invocations, concurrent ones included, the
\* registries of the server satisfy: a chain, keyed by its lowercased name,
\* has a whale detector iff it has a blockchain service, the detector wraps
\* that service, at most one service is ever constructed per chain and every
\* later invocation reuses it, and an initialisation that fails (chain not in
\* the registry, API key missing) leaves both registries unchanged.
Constructions(key) == {c \in 1..Len(calls) : calls[c].address = key}

C30_RegistriesConsistent ==
    pc = "tasks" =>
        /\ DOMAIN world._whale_detectors = DOMAIN world._services
        /\ \A key \in DOMAIN world._services :
              /\ key = Lower(key) /\ key \in CHAIN_REGISTRY
              /\ world._whale_detectors[key].blockchain = world._services[key]
              /\ Constructions(key) = {world._services[key]}
        /\ \A c \in 1..Len(calls) : calls[c].address \in DOMAIN world._services
        /\ \A t \in Tasks : loc.task[t].pc = "await" =>
              /\ loc.task[t].service = world._services[Lower(loc.task[t].chain)]
              /\ loc.task[t].detector \in
                    {<<>>, world._whale_detectors[Lower(loc.task[t].chain)]}
        /\ (prev.set /\ raised # "none") => Registries(world) = prev.was
        /\ prev.set => \A key \in DOMAIN prev.was._services :
              /\ key \in DOMAIN world._services
              /\ world._services[key] = prev.was._services[key]

\* two concurrent invocations that name one chain in different cases hold the
\* one service constructed for it
C30_Witness ==
    /\ pc = "tasks"
    /\ loc.task[1].pc = "await" /\ loc.task[2].pc = "await"
    /\ loc.task[1].chain = EthereumName /\ loc.task[2].chain = Upper(EthereumName)
    /\ loc.task[1].service = loc.task[2].service
    /\ loc.task[2].detector = [blockchain |-> loc.task[1].service]
    /\ Cardinality(Constructions(EthereumName)) = 1

\* a failed initialisation (API key missing) after another chain was set up
C30_WitnessFailed ==
    /\ pc = "tasks" /\ raised = "ValueError" /\ ~world.api_key
    /\ args.chain = BscName
    /\ DOMAIN world._services = {EthereumName}
    /\ Registries(world) = prev.was

C30_WitnessUnknownChain ==
    /\ pc = "tasks" /\ raised = "ValueError" /\ world.api_key
    /\ args.chain = PolygonName
    /\ DOMAIN world._services = {EthereumName, BscName}

====
